---------------------------- MODULE Spec2Model ----------------------------
(***************************************************************************)
(* A model of the setlist retrieval pipeline: the record normalizer        *)
(* (data_processor.py), the relational store adapter (database.py), the    *)
(* vector index adapter (embeddings.py), the retriever (retriever.py), the *)
(* upstream client (data_collector.py) and the ingestion run (main.py).    *)
(*                                                                         *)
(* Conventions.  A Python None is the string NULL.  A JSON value that may  *)
(* be an absent key, a null or an object is a record with a tag field k    *)
(* ("missing", "null", "obj").  A date text "a-b-c" is the tuple           *)
(* <<a, b, c>> of its three numbers; the empty tuple is None (or "").      *)
(***************************************************************************)
EXTENDS Integers, Sequences, FiniteSets, TLC

VARIABLES
    raw,        \* the raw record last handed to the normalizer
    processed,  \* what the normalizer returned for it ("pending" before)
    db,         \* the committed relational store: artists, venues, setlists, songs
    call,       \* bookkeeping of the last insert_setlist call
    seen,       \* returns observed so far, per cause of failure
    inserted,   \* the records successfully inserted so far, in call order
    conn,       \* two connections to the store, each inside one insert_setlist call
    index,      \* the vector index: the records of the "setlists" collection
    emb,        \* bookkeeping of the batch_add_setlists call
    answer,     \* the last call on the query side, with its arguments and result
    run         \* the ingestion run: where setup stands and what it did so far

vars == <<raw, processed, db, call, seen, inserted, conn, index, emb, answer, run>>
normVars == <<raw, processed>>
storeVars == <<db, call, seen, inserted>>
embedVars == <<index, emb>>
queryVars == <<answer>>
runVars == <<run>>

-----------------------------------------------------------------------------
(* Bounds of the model *)

MaxSets == 2        \* sets per raw record
MaxSongs == 3       \* songs per raw record, over all its sets

-----------------------------------------------------------------------------
(* Values *)

NULL == "<null>"
Missing == [k |-> "missing"]
Null == [k |-> "null"]
NONE == [k |-> "none"]           \* a function returning None instead of a dict
NoDate == <<>>

\* Python truthiness of an optional string: None and "" are falsy
Truthy(s) == s /= NULL /\ s /= ""

Min(a, b) == IF a <= b THEN a ELSE b

-----------------------------------------------------------------------------
(* data_processor.py *)

IsLeap(y) == (y % 4 = 0 /\ y % 100 /= 0) \/ y % 400 = 0

DaysInMonth(m, y) ==
    IF m \in {4, 6, 9, 11} THEN 30
    ELSE IF m = 2 THEN (IF IsLeap(y) THEN 29 ELSE 28)
    ELSE 31

\* datetime.strptime(date_string, "%d-%m-%Y") succeeds
ParsesDMY(t) ==
    /\ Len(t) = 3
    /\ t[2] \in 1..12
    /\ t[3] \in 1..9999
    /\ t[1] >= 1 /\ t[1] <= DaysInMonth(t[2], t[3])

\* DD-MM-YYYY to YYYY-MM-DD; the original text when it does not parse
convert_date(date_string) ==
    IF ParsesDMY(date_string)
    THEN <<date_string[3], date_string[2], date_string[1]>>
    ELSE date_string

is_encore_set_gt(set_obj) == set_obj.has_encore /\ set_obj.encore > 1

\* "encore" in set_obj and set_obj["encore"] >= 1
is_encore_set(set_obj) == set_obj.has_encore /\ set_obj.encore >= 1

\* the inner loop over the songs of one set; acc carries songs_list,
\* total_encores and position across the sets
RECURSIVE extract_from_set(_, _, _, _)
extract_from_set(songs, i, is_encore, acc) ==
    IF i > Len(songs) THEN acc
    ELSE LET song_name == songs[i].name IN
         IF Truthy(song_name)
         THEN extract_from_set(songs, i + 1, is_encore,
                [songs_list |-> Append(acc.songs_list,
                                       [name |-> song_name,
                                        position |-> acc.position,
                                        is_encore |-> is_encore]),
                 total_encores |-> IF is_encore THEN acc.total_encores + 1
                                   ELSE acc.total_encores,
                 position |-> acc.position + 1])
         ELSE extract_from_set(songs, i + 1, is_encore, acc)

RECURSIVE extract_from_sets(_, _, _)
extract_from_sets(set_list, j, acc) ==
    IF j > Len(set_list) THEN acc
    ELSE extract_from_sets(set_list, j + 1,
            extract_from_set(set_list[j].song, 1, is_encore_set(set_list[j]), acc))

\* raw_setlist.get("sets", {}).get("set", []) raises on "sets": null
extract_songs_raises(raw_setlist) == raw_setlist.sets.k = "null"

extract_songs(raw_setlist) ==
    LET set_list == IF raw_setlist.sets.k = "obj" THEN raw_setlist.sets.set ELSE <<>>
    IN extract_from_sets(set_list, 1,
            [songs_list |-> <<>>, total_encores |-> 0, position |-> 1])

\* x.get(key, {}).get("name"): the value under "name" of an optional object
NameOf(v) == IF v.k = "obj" THEN v.name ELSE NULL

\* one of the chained .get calls of lines 17-25 is applied to None
header_raises(raw_setlist) ==
    \/ raw_setlist.artist.k = "null"
    \/ raw_setlist.venue.k = "null"
    \/ raw_setlist.venue.k = "obj" /\ raw_setlist.venue.city.k = "null"
    \/ /\ raw_setlist.venue.k = "obj"
       /\ raw_setlist.venue.city.k = "obj"
       /\ raw_setlist.venue.city.country.k = "null"

CityOf(venue) == IF venue.k = "obj" THEN venue.city ELSE Missing
CountryOf(city_data) == IF city_data.k = "obj" THEN city_data.country ELSE Missing

process_setlist_noskip(raw_setlist) ==
    IF header_raises(raw_setlist) \/ extract_songs_raises(raw_setlist)
    THEN NONE
    ELSE LET ex == extract_songs(raw_setlist) IN
         [setlist_id |-> raw_setlist.id,
          artist_name |-> NameOf(raw_setlist.artist),
          artist_mbid |-> IF raw_setlist.artist.k = "obj"
                          THEN raw_setlist.artist.mbid ELSE NULL,
          venue_name |-> NameOf(raw_setlist.venue),
          city |-> NameOf(CityOf(raw_setlist.venue)),
          country |-> NameOf(CountryOf(CityOf(raw_setlist.venue))),
          event_date |-> IF raw_setlist.eventDate /= NoDate
                         THEN convert_date(raw_setlist.eventDate) ELSE NoDate,
          tour_name |-> NameOf(raw_setlist.tour),
          songs |-> ex.songs_list,
          total_songs |-> Len(ex.songs_list),
          total_encores |-> ex.total_encores]

\* the whole of process_setlist: any exception inside the try gives None,
\* and so does an empty song list
process_setlist(raw_setlist) ==
    IF header_raises(raw_setlist) \/ extract_songs_raises(raw_setlist)
    THEN NONE
    ELSE LET ex == extract_songs(raw_setlist) IN
         IF ex.songs_list = <<>>
         THEN NONE
         ELSE process_setlist_noskip(raw_setlist)


RECURSIVE names_where_any(_, _, _)
names_where_any(songs, i, e) ==
    IF i > Len(songs) THEN <<>>
    ELSE <<songs[i].name>> \o names_where_any(songs, i + 1, e)

\* the names of the songs whose is_encore flag is e, in order
RECURSIVE names_where(_, _, _)
names_where(songs, i, e) ==
    IF i > Len(songs) THEN <<>>
    ELSE (IF songs[i].is_encore = e THEN <<songs[i].name>> ELSE <<>>)
         \o names_where(songs, i + 1, e)

\* The text is kept as its sequence of lines; a line is its label and the
\* items that ', '.join puts after it (a date or a count for those lines).
create_embedding_text(processed_setlist) ==
    LET venue_parts ==
            (IF Truthy(processed_setlist.venue_name)
             THEN <<processed_setlist.venue_name>> ELSE <<>>)
            \o (IF Truthy(processed_setlist.city)
                THEN <<processed_setlist.city>> ELSE <<>>)
            \o (IF Truthy(processed_setlist.country)
                THEN <<processed_setlist.country>> ELSE <<>>)
        regular_songs == names_where(processed_setlist.songs, 1, FALSE)
        encore_songs == names_where(processed_setlist.songs, 1, TRUE)
    IN (IF Truthy(processed_setlist.artist_name)
        THEN <<[label |-> "Artist", items |-> <<processed_setlist.artist_name>>]>>
        ELSE <<>>)
       \o (IF processed_setlist.event_date /= NoDate
           THEN <<[label |-> "Date", date |-> processed_setlist.event_date]>>
           ELSE <<>>)
       \o (IF venue_parts /= <<>>
           THEN <<[label |-> "Venue", items |-> venue_parts]>> ELSE <<>>)
       \o (IF Truthy(processed_setlist.tour_name)
           THEN <<[label |-> "Tour", items |-> <<processed_setlist.tour_name>>]>>
           ELSE <<>>)
       \o (IF regular_songs /= <<>>
           THEN <<[label |-> "Setlist", items |-> regular_songs]>> ELSE <<>>)
       \o (IF encore_songs /= <<>>
           THEN <<[label |-> "Encores", items |-> encore_songs]>> ELSE <<>>)
       \o <<[label |-> "Total songs", n |-> processed_setlist.total_songs]>>

\* processed["embedding_text"] = self.create_embedding_text(processed)
with_embedding_text(p) ==
    [setlist_id |-> p.setlist_id, artist_name |-> p.artist_name,
     artist_mbid |-> p.artist_mbid, venue_name |-> p.venue_name,
     city |-> p.city, country |-> p.country, event_date |-> p.event_date,
     tour_name |-> p.tour_name, songs |-> p.songs,
     total_songs |-> p.total_songs, total_encores |-> p.total_encores,
     embedding_text |-> create_embedding_text(p)]

RECURSIVE batch_process_from_until_invalid(_, _)
batch_process_from_until_invalid(raw_setlists, i) ==
    IF i > Len(raw_setlists) THEN <<>>
    ELSE LET p == process_setlist(raw_setlists[i]) IN
         IF p = NONE THEN <<>>
         ELSE <<with_embedding_text(p)>>
              \o batch_process_from_until_invalid(raw_setlists, i + 1)

\* the kept records, each with its embedding text, in input order
RECURSIVE batch_process_from(_, _)
batch_process_from(raw_setlists, i) ==
    IF i > Len(raw_setlists) THEN <<>>
    ELSE LET p == process_setlist(raw_setlists[i]) IN
         (IF p /= NONE THEN <<with_embedding_text(p)>> ELSE <<>>)
         \o batch_process_from(raw_setlists, i + 1)

batch_process(raw_setlists) == batch_process_from(raw_setlists, 1)

-----------------------------------------------------------------------------
(* Raw records handed to the normalizer *)

SongNames == {NULL, "", "A"}
EncoreValues == {0, 1, 2}

\* a set's encore key: absent, or present with a value
EncoreKeys ==
    {[has_encore |-> FALSE, encore |-> 0]}
    \cup {[has_encore |-> TRUE, encore |-> e] : e \in EncoreValues}

RECURSIVE SumTo(_, _)
SumTo(lens, j) == IF j = 0 THEN 0 ELSE lens[j] + SumTo(lens, j - 1)

\* the list of sets whose j-th set has the encore key encs[j] and the next
\* lens[j] of the songs named by names
SetListOf(lens, encs, names) ==
    [j \in 1..Len(lens) |->
        [has_encore |-> encs[j].has_encore, encore |-> encs[j].encore,
         song |-> [i \in 1..lens[j] |-> [name |-> names[SumTo(lens, j - 1) + i]]]]]

TheArtist == [k |-> "obj", name |-> "Phish", mbid |-> "m1"]
TheCountry == [k |-> "obj", name |-> "US"]
TheCity == [k |-> "obj", name |-> "NYC", country |-> TheCountry]
TheVenue == [k |-> "obj", name |-> "MSG", city |-> TheCity]
TheTour == [k |-> "obj", name |-> "Fall"]
TheDate == <<31, 12, 1995>>

RawArtists == {Missing, Null, TheArtist, [k |-> "obj", name |-> NULL, mbid |-> NULL]}
RawCountries == {Missing, Null, TheCountry, [k |-> "obj", name |-> NULL]}
RawCities ==
    {Missing, Null, [k |-> "obj", name |-> NULL, country |-> Missing]}
    \cup {[k |-> "obj", name |-> "NYC", country |-> c] : c \in RawCountries}
RawVenues ==
    {Missing, Null, [k |-> "obj", name |-> NULL, city |-> Missing]}
    \cup {[k |-> "obj", name |-> "MSG", city |-> c] : c \in RawCities}
RawTours == {Missing, Null, TheTour, [k |-> "obj", name |-> NULL]}
RawDates == {NoDate, TheDate, <<1995, 12, 31>>, <<30, 2, 1996>>, <<29, 2, 1996>>}

MkRaw(id, artist, venue, eventDate, tour, sets) ==
    [id |-> id, artist |-> artist, venue |-> venue, eventDate |-> eventDate,
     tour |-> tour, sets |-> sets]

SetsOf(set_list) == [k |-> "obj", set |-> set_list]

\* the smallest song structures: no set, an empty set, a set of one song
SmallSetLists ==
    {<<>>}
    \cup {SetListOf(<<0>>, <<e>>, <<>>) : e \in EncoreKeys}
    \cup {SetListOf(<<1>>, <<e>>, <<x>>) : e \in EncoreKeys, x \in SongNames}

\* every header shape, one path varied at a time, and every shape of "sets"
HeaderRaws ==
    {MkRaw("s1", TheArtist, TheVenue, TheDate, TheTour, s) :
        s \in {Missing, Null, [k |-> "obj", set |-> <<>>]}}
    \cup UNION {
          {MkRaw(id, TheArtist, TheVenue, TheDate, TheTour, SetsOf(sl)) : id \in {NULL, "s1"}}
          \cup {MkRaw("s1", a, TheVenue, TheDate, TheTour, SetsOf(sl)) : a \in RawArtists}
          \cup {MkRaw("s1", TheArtist, v, TheDate, TheTour, SetsOf(sl)) : v \in RawVenues}
          \cup {MkRaw("s1", TheArtist, TheVenue, d, TheTour, SetsOf(sl)) : d \in RawDates}
          \cup {MkRaw("s1", TheArtist, TheVenue, TheDate, t, SetsOf(sl)) : t \in RawTours}
          : sl \in SmallSetLists}

-----------------------------------------------------------------------------
(* The relational store *)

EmptyDb == [artists |-> <<>>, venues |-> <<>>, setlists |-> {}, songs |-> <<>>]
NoCall == [k |-> "none"]
Pending == [k |-> "pending"]
NothingSeen == [duplicate |-> {}, other |-> {}]
NoneInserted == <<>>
NoConn == [k |-> "none"]
NoBatch == [k |-> "none"]
NoAnswer == [k |-> "none"]
NoRun == [k |-> "none"]
EmptyIndex == {}

-----------------------------------------------------------------------------
(* The normalizer applied to one raw record *)

\* every song structure of the bounds under a complete header, and every
\* header shape over the smallest song structures
InitNorm ==
    /\ \/ \E n \in 0..MaxSets : \E lens \in [1..n -> 0..MaxSongs] :
            /\ SumTo(lens, n) <= MaxSongs
            /\ \E encs \in [1..n -> EncoreKeys] :
               \E names \in [1..SumTo(lens, n) -> SongNames] :
                  raw = MkRaw("s1", TheArtist, TheVenue, TheDate, TheTour,
                              SetsOf(SetListOf(lens, encs, names)))
       \/ raw \in HeaderRaws
    /\ processed = Pending
    /\ db = EmptyDb
    /\ call = NoCall
    /\ seen = NothingSeen
    /\ inserted = NoneInserted
    /\ conn = NoConn
    /\ index = EmptyIndex
    /\ emb = NoBatch
    /\ answer = NoAnswer
    /\ run = NoRun

Normalize ==
    /\ processed = Pending
    /\ processed' = process_setlist(raw)
    /\ UNCHANGED <<raw, storeVars, conn, embedVars, queryVars, runVars>>

NextNorm == Normalize

SpecNorm == InitNorm /\ [][NextNorm]_vars

\* what the claims say of a raw record, read off the record itself
RECURSIVE Flatten(_, _)
Flatten(set_list, j) ==
    IF j > Len(set_list) THEN <<>>
    ELSE [i \in 1..Len(set_list[j].song) |->
            [name |-> set_list[j].song[i].name, from |-> j]]
         \o Flatten(set_list, j + 1)

RawSetList(r) == IF r.sets.k = "obj" THEN r.sets.set ELSE <<>>
IsNamed(s) == s.name /= NULL /\ s.name /= ""
NamedSongs(r) == SelectSeq(Flatten(RawSetList(r), 1), IsNamed)

Returned == processed /= Pending
ReturnedRecord == processed /= Pending /\ processed /= NONE

\* C1 (as claimed): every raw record with at least one named song is
\* normalized to a record whose totalSongs is the number of named songs and
\* whose songs are the named songs in set-then-song order at positions
\* 1..totalSongs.
C1_NamedSongsNumbered ==
    (Returned /\ Len(NamedSongs(raw)) >= 1) =>
        /\ processed /= NONE
        /\ processed.total_songs = Len(NamedSongs(raw))
        /\ Len(processed.songs) = Len(NamedSongs(raw))
        /\ \A i \in 1..Len(processed.songs) :
              /\ processed.songs[i].position = i
              /\ processed.songs[i].name = NamedSongs(raw)[i].name

\* The numbering itself, wherever a record is returned.
NumberingWhenReturned ==
    ReturnedRecord =>
        /\ processed.total_songs = Len(NamedSongs(raw))
        /\ Len(processed.songs) = Len(NamedSongs(raw))
        /\ \A i \in 1..Len(processed.songs) :
              /\ processed.songs[i].position = i
              /\ processed.songs[i].name = NamedSongs(raw)[i].name

\* C2: a raw record with no named song in any of its sets is normalized to
\* absent (None).
C2_NoNamedSongAbsent ==
    (Returned /\ Len(NamedSongs(raw)) = 0) => processed = NONE

C2_Witness ==
    /\ processed = NONE
    /\ raw.sets.k = "obj"
    /\ Len(raw.sets.set) = 2
    /\ Len(Flatten(raw.sets.set, 1)) >= 2
    /\ ~header_raises(raw)

\* C3: in a normalized record a song is an encore exactly when its set
\* carries an encore indicator >= 1, and totalEncores counts those songs.
IsEncoreSong(s) == s.is_encore
C3_EncoreFlags ==
    ReturnedRecord =>
        /\ \A i \in 1..Len(processed.songs) :
              LET origin == RawSetList(raw)[NamedSongs(raw)[i].from] IN
              processed.songs[i].is_encore
                  <=> (origin.has_encore /\ origin.encore >= 1)
        /\ processed.total_encores = Len(SelectSeq(processed.songs, IsEncoreSong))

C3_Witness ==
    /\ ReturnedRecord
    /\ Len(RawSetList(raw)) = 2
    /\ processed.total_songs = 3
    /\ processed.total_encores = 1
    /\ [i \in 1..3 |-> processed.songs[i].is_encore] = <<FALSE, FALSE, TRUE>>
    /\ [i \in 1..3 |-> processed.songs[i].position] = <<1, 2, 3>>
    /\ RawSetList(raw)[2].encore = 1


\* the place of each label in the fixed order of the lines
LineRank(label) ==
    CASE label = "Artist" -> 1
      [] label = "Date" -> 2
      [] label = "Venue" -> 3
      [] label = "Tour" -> 4
      [] label = "Setlist" -> 5
      [] label = "Encores" -> 6
      [] label = "Total songs" -> 7

LinesOf(text, label) == {i \in 1..Len(text) : text[i].label = label}
IsEncore(song) == song.is_encore
NotEncore(song) == ~song.is_encore
NonNull(x) == x /= NULL /\ x /= ""

C19_SparseWitness ==
    /\ ReturnedRecord
    /\ [i \in 1..Len(create_embedding_text(processed)) |->
            create_embedding_text(processed)[i].label]
         = <<"Artist", "Date", "Venue", "Encores", "Total songs">>

\* a nested path is missing: its key is absent or its value is null
Absent(v) == v.k = "missing" \/ v.k = "null"

\* the fields of the returned record that a missing path leaves null
NullFieldsOf(r, p, missing(_)) ==
    /\ missing(r.artist) => p.artist_name = NULL /\ p.artist_mbid = NULL
    /\ missing(r.venue) => p.venue_name = NULL /\ p.city = NULL /\ p.country = NULL
    /\ missing(CityOf(r.venue)) => p.city = NULL /\ p.country = NULL
    /\ missing(CountryOf(CityOf(r.venue))) => p.country = NULL
    /\ missing(r.tour) => p.tour_name = NULL
    /\ r.eventDate = NoDate => p.event_date = NoDate

\* C21 (as claimed): a raw record with a named song in which any of artist,
\* venue, venue.city, venue.city.country, tour or eventDate is missing, its
\* key absent or its value null, is normalized to a record whose
\* corresponding fields are null; it is not given up as absent.
C21_MissingPathsGiveNulls ==
    (Returned /\ NamedSongs(raw) /= <<>>) =>
        /\ processed /= NONE
        /\ NullFieldsOf(raw, processed, Absent)

\* What holds: a path whose key is absent gives null fields, and so do a
\* null tour and a null eventDate; a record returned at all has null fields
\* for every missing path.
AbsentKeysGiveNulls ==
    (Returned /\ NamedSongs(raw) /= <<>>) =>
        /\ processed /= NONE => NullFieldsOf(raw, processed, Absent)
        /\ (/\ ~(raw.artist.k = "null")
            /\ ~(raw.venue.k = "null")
            /\ ~(CityOf(raw.venue).k = "null")
            /\ ~(CountryOf(CityOf(raw.venue)).k = "null")) => processed /= NONE

-----------------------------------------------------------------------------
(* database.py *)

\* what insert_setlist returns: the setlist id, or None
RetNone == [k |-> "none"]
Ret(id) == IF id = NULL THEN RetNone ELSE [k |-> "id", id |-> id]

\* the lowest row number among those that satisfy a WHERE clause, 0 for none
First(hits) == IF hits = {} THEN 0 ELSE CHOOSE i \in hits : \A j \in hits : i <= j

artist_lookup_any(d, mbid) == IF Len(d.artists) > 0 THEN 1 ELSE 0

\* SELECT artist_id FROM artists WHERE mbid = ?   (NULL = x is never true)
artist_lookup(d, mbid) ==
    First({i \in 1..Len(d.artists) : mbid /= NULL /\ d.artists[i].mbid = mbid})

\* SELECT venue_id FROM venues WHERE name = ? AND city = ?
venue_lookup(d, name, city) ==
    First({i \in 1..Len(d.venues) :
            /\ name /= NULL /\ d.venues[i].name = name
            /\ city /= NULL /\ d.venues[i].city /= NULL /\ d.venues[i].city = city})

Ok(d, id) == [err |-> "", cause |-> "", db |-> d, id |-> id]
Raise(err, cause, d) == [err |-> err, cause |-> cause, db |-> d, id |-> 0]

\* INSERT INTO artists (name, mbid): name and mbid NOT NULL, mbid UNIQUE
artist_insert(d, name, mbid) ==
    IF name = NULL \/ mbid = NULL
    THEN Raise("IntegrityError", "not_null", d)
    ELSE IF \E i \in 1..Len(d.artists) : d.artists[i].mbid = mbid
    THEN Raise("IntegrityError", "unique", d)
    ELSE Ok([d EXCEPT !.artists = Append(@, [name |-> name, mbid |-> mbid])],
            Len(d.artists) + 1)

\* INSERT INTO venues (name, city, country): name NOT NULL
venue_insert(d, name, city, country) ==
    IF name = NULL
    THEN Raise("IntegrityError", "not_null", d)
    ELSE Ok([d EXCEPT !.venues =
                Append(@, [name |-> name, city |-> city, country |-> country])],
            Len(d.venues) + 1)

get_or_create_venue_by_country(d, name, city, country) ==
    LET row == First({i \in 1..Len(d.venues) :
                        /\ name /= NULL /\ d.venues[i].name = name
                        /\ city /= NULL /\ d.venues[i].city = city
                        /\ d.venues[i].country = country})
    IN IF row /= 0 THEN Ok(d, row) ELSE venue_insert(d, name, city, country)

get_or_create_venue(d, name, city, country) ==
    LET row == venue_lookup(d, name, city) IN
    IF row /= 0 THEN Ok(d, row) ELSE venue_insert(d, name, city, country)

setlist_insert_or_replace(d, p, artist_id, venue_id) ==
    IF p.event_date = NoDate
    THEN Raise("IntegrityError", "not_null", d)
    ELSE Ok([d EXCEPT !.setlists =
                {r \in @ : r.setlist_id /= p.setlist_id} \cup
                {[setlist_id |-> p.setlist_id, artist_id |-> artist_id,
                  venue_id |-> venue_id, event_date |-> p.event_date,
                  tour_name |-> p.tour_name, total_songs |-> p.total_songs,
                  embedding_text |-> p.embedding_text]}],
            0)

\* INSERT INTO setlists: event_date and total_songs NOT NULL, setlist_id the
\* primary key (a TEXT primary key of a rowid table admits NULL, and NULLs
\* never conflict)
setlist_insert(d, p, artist_id, venue_id) ==
    IF p.event_date = NoDate
    THEN Raise("IntegrityError", "not_null", d)
    ELSE IF p.setlist_id /= NULL
            /\ \E r \in d.setlists : r.setlist_id = p.setlist_id
    THEN Raise("IntegrityError", "duplicate", d)
    ELSE Ok([d EXCEPT !.setlists = @ \cup
                {[setlist_id |-> p.setlist_id, artist_id |-> artist_id,
                  venue_id |-> venue_id, event_date |-> p.event_date,
                  tour_name |-> p.tour_name, total_songs |-> p.total_songs,
                  embedding_text |-> p.embedding_text]}],
            0)

\* INSERT INTO songs, one row per song: setlist_id and song_name NOT NULL.
\* An injected fault hits the last of the song inserts.
RECURSIVE songs_insert(_, _, _, _)
songs_insert(d, p, i, fault) ==
    IF i > Len(p.songs) THEN Ok(d, 0)
    ELSE IF fault = "song" /\ i = Len(p.songs)
    THEN Raise("Exception", "fault", d)
    ELSE IF p.setlist_id = NULL \/ p.songs[i].name = NULL
    THEN Raise("IntegrityError", "not_null", d)
    ELSE songs_insert(
            [d EXCEPT !.songs = Append(@,
                [setlist_id |-> p.setlist_id, song_name |-> p.songs[i].name,
                 position |-> p.songs[i].position,
                 is_encore |-> IF p.songs[i].is_encore THEN 1 ELSE 0])],
            p, i + 1, fault)

rollback_keeps(committed, working) == working

\* self.conn.rollback(): the store is again as of the last commit
rollback(committed, working) == committed

Failed(committed, step, at) ==
    [db |-> rollback(committed, step.db), ret |-> RetNone,
     err |-> step.err, cause |-> step.cause, at |-> at]

\* the steps of insert_setlist that an exception can leave (an OperationalError
\* of the engine: I/O error, full disk, locked file), and "none"
Faults == {"none", "artist", "venue", "setlist", "song", "commit"}

\* insert_setlist from the point where the artist SELECT has answered `row`
\* (0: no such artist); `committed` is the store the INSERTs then meet
insert_setlist_after_lookup(committed, p, row, fault) ==
    LET a == IF fault = "artist" THEN Raise("Exception", "fault", committed)
             ELSE IF row /= 0 THEN Ok(committed, row)
             ELSE artist_insert(committed, p.artist_name, p.artist_mbid)
    IN IF a.err /= "" THEN Failed(committed, a, "artist") ELSE
    LET v == IF fault = "venue" THEN Raise("Exception", "fault", a.db)
             ELSE get_or_create_venue(a.db, p.venue_name, p.city, p.country)
    IN IF v.err /= "" THEN Failed(committed, v, "venue") ELSE
    LET h == IF fault = "setlist" THEN Raise("Exception", "fault", v.db)
             ELSE setlist_insert(v.db, p, a.id, v.id)
    IN IF h.err /= "" THEN Failed(committed, h, "setlist") ELSE
    LET g == songs_insert(h.db, p, 1, fault)
    IN IF g.err /= "" THEN Failed(committed, g, "song") ELSE
    IF fault = "commit"
    THEN Failed(committed, Raise("Exception", "fault", g.db), "commit")
    ELSE [db |-> g.db, ret |-> Ret(p.setlist_id), err |-> "", cause |-> "", at |-> ""]

insert_setlist(d, p, fault) ==
    insert_setlist_after_lookup(d, p, artist_lookup(d, p.artist_mbid), fault)

-----------------------------------------------------------------------------
(* Sequential ingestion into the store: one insert_setlist call at a time *)

Artist1 == [k |-> "obj", name |-> "Phish", mbid |-> "m1"]
Artist1b == [k |-> "obj", name |-> "Phish (band)", mbid |-> "m1"]
Artist2 == [k |-> "obj", name |-> "Dead", mbid |-> "m2"]
VenueIn(country) ==
    [k |-> "obj", name |-> "MSG",
     city |-> [k |-> "obj", name |-> "NYC", country |-> country]]
VenueNoCity == [k |-> "obj", name |-> "MSG", city |-> Missing]

OneSong == <<[has_encore |-> FALSE, encore |-> 0, song |-> <<[name |-> "A"]>>]>>
TwoSongs ==
    <<[has_encore |-> FALSE, encore |-> 0, song |-> <<[name |-> "A"], [name |-> NULL]>>],
      [has_encore |-> TRUE, encore |-> 1, song |-> <<[name |-> "B"]>>]>>

SetlistIds == {"s1", "s2"}

\* the song structure of the raw record of each id
SetsFor(id) == IF id = "s2" THEN SetsOf(TwoSongs) ELSE SetsOf(OneSong)

\* raw records that insert cleanly, and one raw record per way of lacking
\* a column the schema requires
InsertRaws ==
    {MkRaw(id, a, v, TheDate, TheTour, SetsFor(id)) :
        id \in SetlistIds,
        a \in {Artist1, Artist1b, Artist2},
        v \in {VenueIn(TheCountry), VenueIn([k |-> "obj", name |-> "UK"]),
               VenueNoCity}}
    \cup {MkRaw(NULL, Artist1, VenueIn(TheCountry), TheDate, TheTour, SetsFor(NULL))}
    \cup UNION {{MkRaw(id, Missing, VenueIn(TheCountry), TheDate, TheTour, SetsFor(id)),
                 MkRaw(id, Artist1, Missing, TheDate, TheTour, SetsFor(id)),
                 MkRaw(id, Artist1, VenueIn(TheCountry), NoDate, TheTour, SetsFor(id))} :
                    id \in SetlistIds}

\* what batch_process makes of them: the arguments of insert_setlist
InsertRecords == {batch_process(<<r>>)[1] : r \in InsertRaws}

StoredIds(d) == {r.setlist_id : r \in d.setlists}

Init ==
    /\ raw = MkRaw(NULL, Missing, Missing, NoDate, Missing, Missing)
    /\ processed = Pending
    /\ db = EmptyDb
    /\ call = NoCall
    /\ seen = NothingSeen
    /\ inserted = NoneInserted
    /\ conn = NoConn
    /\ index = EmptyIndex
    /\ emb = NoBatch
    /\ answer = NoAnswer
    /\ run = NoRun

InsertSetlist ==
    \E p \in InsertRecords, fault \in Faults :
        LET res == insert_setlist(db, p, fault) IN
        /\ db' = res.db
        /\ call' = [k |-> "insert", id |-> p.setlist_id, ret |-> res.ret,
                    err |-> res.err, cause |-> res.cause, at |-> res.at]
        /\ seen' = IF res.err = "" THEN seen
                   ELSE IF res.cause = "duplicate"
                   THEN [seen EXCEPT !.duplicate = @ \cup {res.ret}]
                   ELSE [seen EXCEPT !.other = @ \cup {res.ret}]
        /\ inserted' = IF res.err = ""
                       THEN Append(inserted, p)
                       ELSE inserted
        /\ UNCHANGED <<normVars, conn, embedVars, queryVars, runVars>>

Next == InsertSetlist

Spec == Init /\ [][Next]_vars


Called == call.k = "insert"
CallFailed == call.k = "insert" /\ call.err /= ""

\* C4: an insert_setlist call that fails, at whatever step, leaves the
\* artist, venue, setlist and song tables exactly as they were before it.
C4_FailedInsertLeavesTables ==
    [][(call'.k = "insert" /\ call'.err /= "") => db' = db]_vars

\* a call that had written its artist, venue and setlist rows and then
\* failed on a song row, and one that failed at commit
C4_Witness ==
    /\ CallFailed
    /\ call.at = "song"
    /\ call.err = "IntegrityError"
    /\ db = EmptyDb

SongRowsOf(d, id) == {i \in 1..Len(d.songs) : d.songs[i].setlist_id = id}

\* C5: insert_setlist with a setlist id that is already stored reports
\* failure, and the number of song rows, in total and of that id, is as
\* before the call.
C5_DuplicateRejected ==
    [][(call'.k = "insert" /\ call'.id \in StoredIds(db)) =>
            /\ call'.ret = RetNone
            /\ Len(db'.songs) = Len(db.songs)
            /\ SongRowsOf(db', call'.id) = SongRowsOf(db, call'.id)]_vars

C5_Witness ==
    /\ CallFailed
    /\ call.cause = "duplicate"
    /\ call.id \in StoredIds(db)
    /\ SongRowsOf(db, call.id) /= {}
    /\ Len(inserted) = 2

\* C6 (as claimed): what insert_setlist reports for a duplicate primary key
\* differs from what it reports for every other write failure.
C6_DuplicateKeyDistinct == seen.duplicate \cap seen.other = {}

ArtistRows(d, mbid) == {i \in 1..Len(d.artists) : d.artists[i].mbid = mbid}
SetlistRow(d, id) == CHOOSE r \in d.setlists : r.setlist_id = id

\* C7: there is exactly one artist row per distinct artist mbid, and every
\* setlist inserted with that mbid references that row.
C7_OneArtistPerMbid ==
    /\ \A i, j \in 1..Len(db.artists) :
          db.artists[i].mbid = db.artists[j].mbid => i = j
    /\ \A n \in 1..Len(inserted) :
          /\ Cardinality(ArtistRows(db, inserted[n].artist_mbid)) = 1
          /\ inserted[n].setlist_id \in StoredIds(db)
          /\ SetlistRow(db, inserted[n].setlist_id).artist_id
                \in ArtistRows(db, inserted[n].artist_mbid)

C7_Witness ==
    /\ Len(inserted) = 2
    /\ inserted[1].artist_mbid = inserted[2].artist_mbid
    /\ inserted[1].artist_name /= inserted[2].artist_name
    /\ Len(db.artists) = 1
    /\ \A r \in db.setlists : r.artist_id = 1

VenueRows(d, name, city) ==
    {i \in 1..Len(d.venues) : d.venues[i].name = name /\ d.venues[i].city = city}

SameVenueKey(p, q) ==
    p.venue_name = q.venue_name /\ p.city = q.city /\ p.city /= NULL

\* the first of the inserted records with the venue name and city of p
FirstWithVenueOf(p) ==
    inserted[First({n \in 1..Len(inserted) : SameVenueKey(inserted[n], p)})]

\* C8: two successful inserts whose venues share the name and the (non-null)
\* city and differ in the country leave exactly one venue row, which has the
\* country of the first insert and which both setlists reference.
C8_VenueCollapse ==
    \A m, n \in 1..Len(inserted) :
        (m < n /\ SameVenueKey(inserted[m], inserted[n])
               /\ inserted[m].country /= inserted[n].country) =>
            LET rows == VenueRows(db, inserted[m].venue_name, inserted[m].city) IN
            /\ Cardinality(rows) = 1
            /\ \A i \in rows : db.venues[i].country = FirstWithVenueOf(inserted[m]).country
            /\ SetlistRow(db, inserted[m].setlist_id).venue_id \in rows
            /\ SetlistRow(db, inserted[n].setlist_id).venue_id \in rows

C8_Witness ==
    /\ Len(inserted) = 2
    /\ SameVenueKey(inserted[1], inserted[2])
    /\ inserted[1].country = "UK"
    /\ inserted[2].country = "US"
    /\ Len(db.venues) = 1
    /\ db.venues[1].country = "UK"


\* C23 (as claimed): no two venue rows have the same identity key (name,
\* city), for every city the normalizer gives, a null city included.
C23_OneVenuePerNameCity ==
    \A i, j \in 1..Len(db.venues) :
        (db.venues[i].name = db.venues[j].name /\ db.venues[i].city = db.venues[j].city)
            => i = j

\* What holds: no two venue rows of a non-null city share name and city.
OneVenuePerNameAndKnownCity ==
    \A i, j \in 1..Len(db.venues) :
        (/\ db.venues[i].name = db.venues[j].name
         /\ db.venues[i].city = db.venues[j].city
         /\ db.venues[i].city /= NULL) => i = j


\* C25: after any sequence of insert_setlist calls, failed ones included,
\* every stored setlist row has exactly total_songs song rows, at the
\* positions 1..total_songs, and every song row has the id of a stored
\* setlist row.
C25_NoPartialSetlist ==
    /\ \A r \in db.setlists :
          LET rows == SongRowsOf(db, r.setlist_id) IN
          /\ Cardinality(rows) = r.total_songs
          /\ {db.songs[i].position : i \in rows} = 1..r.total_songs
    /\ \A i \in 1..Len(db.songs) : db.songs[i].setlist_id \in StoredIds(db)

\* a setlist of two songs is stored, and a later call of another id failed
\* on its last song row, after its setlist row was written
C25_Witness ==
    /\ CallFailed
    /\ call.at = "song"
    /\ Len(inserted) = 1
    /\ inserted[1].total_songs = 2
    /\ call.id /= NULL /\ call.id \notin StoredIds(db)
    /\ Cardinality(SongRowsOf(db, inserted[1].setlist_id)) = 2
    /\ Len(db.songs) = 2


-----------------------------------------------------------------------------
(* Two connections inside insert_setlist at once.  The engine admits one   *)
(* writer at a time: a connection's INSERTs up to its commit or rollback   *)
(* are one step, which waits for the other writer to finish.  Its artist   *)
(* SELECT is a step of its own and reads the committed store.              *)

Conns == {"c1", "c2"}
IdOfConn(c) == IF c = "c1" THEN "s1" ELSE "s2"
RaceRecords(c) ==
    {p \in InsertRecords :
        p.setlist_id = IdOfConn(c) /\ p.event_date /= NoDate
        /\ p.artist_mbid /= NULL /\ p.venue_name /= NULL}

InitRace ==
    /\ raw = MkRaw(NULL, Missing, Missing, NoDate, Missing, Missing)
    /\ processed = Pending
    /\ db = EmptyDb
    /\ call = NoCall
    /\ seen = NothingSeen
    /\ inserted = NoneInserted
    /\ \E p1 \in RaceRecords("c1"), p2 \in RaceRecords("c2") :
          conn = [c \in Conns |->
                    [pc |-> "start", p |-> IF c = "c1" THEN p1 ELSE p2,
                     row |-> 0, ret |-> RetNone, err |-> ""]]
    /\ index = EmptyIndex
    /\ emb = NoBatch
    /\ answer = NoAnswer
    /\ run = NoRun

\* lines 120-127 of _get_or_create_artist
RaceLookup(c) ==
    /\ conn[c].pc = "start"
    /\ conn' = [conn EXCEPT ![c].pc = "looked",
                            ![c].row = artist_lookup(db, conn[c].p.artist_mbid)]
    /\ UNCHANGED <<normVars, storeVars, embedVars, queryVars, runVars>>

\* the rest of insert_setlist, from line 126 to its return
RaceWrite(c) ==
    /\ conn[c].pc = "looked"
    /\ LET res == insert_setlist_after_lookup(db, conn[c].p, conn[c].row, "none") IN
       /\ db' = res.db
       /\ conn' = [conn EXCEPT ![c].pc = "done", ![c].ret = res.ret,
                               ![c].err = res.err]
       /\ inserted' = IF res.err = "" THEN Append(inserted, conn[c].p) ELSE inserted
    /\ UNCHANGED <<normVars, call, seen, embedVars, queryVars, runVars>>

NextRace == \E c \in Conns : RaceLookup(c) \/ RaceWrite(c)

SpecRace == InitRace /\ [][NextRace]_vars

\* both callers looked the artist up before either inserted it
BothMissed ==
    /\ \A c \in Conns : conn[c].pc = "done" /\ conn[c].row = 0
    /\ conn["c1"].p.artist_mbid = conn["c2"].p.artist_mbid

\* C9 (as claimed): when two callers interleave the get-or-create of one
\* artist mbid, both looking up before either inserts, neither call fails,
\* one artist row is stored and both setlists reference it.
C9_RaceRecovered ==
    BothMissed =>
        /\ \A c \in Conns : conn[c].err = "" /\ conn[c].ret = Ret(conn[c].p.setlist_id)
        /\ Cardinality(ArtistRows(db, conn["c1"].p.artist_mbid)) = 1
        /\ \A r \in db.setlists :
              r.artist_id \in ArtistRows(db, conn["c1"].p.artist_mbid)

\* The race never stores two artist rows of one mbid: the loser fails.
RaceKeepsArtistsUnique ==
    \A i, j \in 1..Len(db.artists) :
        db.artists[i].mbid = db.artists[j].mbid => i = j

-----------------------------------------------------------------------------
(* The vector index: embeddings.py *)

\* batch_size of batch_add_setlists (100 in the code), scaled down
BatchSize == 2
\* the longest list of setlists handed to batch_add_setlists
MaxBatch == 3

\* str(setlist['setlist_id'])
str(id) == IF id = NULL THEN "None" ELSE id

\* the vector the provider answers for a text
EmbeddingOf(text) == [vector_of |-> text]

\* what one provider or collection call does: it succeeds, the embedding call
\* raises, or collection.add raises
Outcomes == {"ok", "embed_failed", "add_failed"}

\* generate_embedding: the vector, or None when the provider call raised
generate_embedding(text, outcome) ==
    IF outcome = "embed_failed" THEN NONE ELSE EmbeddingOf(text)

IndexedIds(ix) == {e.id : e \in ix}

\* collection.add(ids, embeddings, documents) of ids the collection lacks
collection_add(ix, ids, embeddings, documents) ==
    ix \cup {[id |-> ids[i], embedding |-> embeddings[i], document |-> documents[i]] :
                i \in 1..Len(ids)}

\* add_setlist without "if embedding is None: return"
add_setlist_unchecked(ix, setlist_id, embedding_text, outcome) ==
    LET embedding == generate_embedding(embedding_text, outcome) IN
    IF outcome = "add_failed" THEN [index |-> ix, raised |-> TRUE]
    ELSE [index |-> collection_add(ix, <<setlist_id>>, <<embedding>>, <<embedding_text>>),
          raised |-> FALSE]

\* add_setlist: nothing is stored when the embedding is None (return) or when
\* collection.add raises (the exception leaves add_setlist)
add_setlist(ix, setlist_id, embedding_text, outcome) ==
    LET embedding == generate_embedding(embedding_text, outcome) IN
    IF embedding = NONE THEN [index |-> ix, raised |-> FALSE]
    ELSE IF outcome = "add_failed" THEN [index |-> ix, raised |-> TRUE]
    ELSE [index |-> collection_add(ix, <<setlist_id>>, <<embedding>>, <<embedding_text>>),
          raised |-> FALSE]

\* positions of setlists[i:i + batch_size], i counted from 1
batch_positions(n, i) == i..Min(i + BatchSize - 1, n)

fallback_all(n, i) == 1..n

\* "for setlist in batch" of the fallback
fallback_batch(n, i) == batch_positions(n, i)

\* the fallback loop over positions j..last: each setlist goes through
\* add_setlist, an exception of which is caught and the loop goes on
RECURSIVE fallback_from(_, _, _, _, _)
fallback_from(setlists, j, last, st, record_outcome) ==
    IF j > last THEN st
    ELSE LET setlist == setlists[j]
             res == add_setlist(st.index, str(setlist.setlist_id),
                                setlist.embedding_text, record_outcome[j])
         IN fallback_from(setlists, j + 1, last,
                          [st EXCEPT !.index = res.index,
                                     !.single_calls = Append(@, str(setlist.setlist_id))],
                          record_outcome)

\* the loop over range(0, len(setlists), batch_size), from the chunk that
\* starts at position i; c is the number of that chunk
RECURSIVE batch_add_from(_, _, _, _, _, _)
batch_add_from(setlists, i, c, st, chunk_outcome, record_outcome) ==
    IF i > Len(setlists) THEN st
    ELSE LET n == Len(setlists)
             first == i
             last == Min(i + BatchSize - 1, n)
             batch_ids == [j \in 1..(last - first + 1) |->
                              str(setlists[first + j - 1].setlist_id)]
             batch_texts == [j \in 1..(last - first + 1) |->
                                setlists[first + j - 1].embedding_text]
             called == [st EXCEPT !.batch_calls = Append(@, batch_ids)]
             after ==
                 IF chunk_outcome[c] = "ok"
                 THEN [called EXCEPT !.index =
                          collection_add(@, batch_ids,
                              [j \in 1..Len(batch_texts) |-> EmbeddingOf(batch_texts[j])],
                              batch_texts)]
                 ELSE LET todo == fallback_batch(n, i) IN
                      fallback_from(setlists,
                                    CHOOSE a \in todo : \A b \in todo : a <= b,
                                    CHOOSE a \in todo : \A b \in todo : a >= b,
                                    called, record_outcome)
         IN batch_add_from(setlists, i + BatchSize, c + 1, after,
                           chunk_outcome, record_outcome)

batch_add_setlists(ix, setlists, chunk_outcome, record_outcome) ==
    batch_add_from(setlists, 1, 1,
                   [index |-> ix, batch_calls |-> <<>>, single_calls |-> <<>>],
                   chunk_outcome, record_outcome)

\* the setlists of an ingestion run: identifier and embedding text
EmbedIds == {NULL, "s1", "s2", "s3"}
EmbedText(id) == <<[label |-> "Artist", items |-> <<id>>]>>
EmbedRecord(id) == [setlist_id |-> id, embedding_text |-> EmbedText(id)]

\* number of the chunk that holds position i, and the number of chunks
ChunkOf(i) == ((i - 1) \div BatchSize) + 1
ChunkCount(n) == (n + BatchSize - 1) \div BatchSize

\* the persistent collection the manager opens: empty, or left by earlier runs
PersistedIndexes ==
    {EmptyIndex,
     {[id |-> "s0", embedding |-> EmbeddingOf(EmbedText("s0")),
       document |-> EmbedText("s0")]}}

InitEmbed ==
    /\ raw = MkRaw(NULL, Missing, Missing, NoDate, Missing, Missing)
    /\ processed = Pending
    /\ db = EmptyDb
    /\ call = NoCall
    /\ seen = NothingSeen
    /\ inserted = NoneInserted
    /\ conn = NoConn
    /\ index \in PersistedIndexes
    /\ emb = NoBatch
    /\ answer = NoAnswer
    /\ run = NoRun

\* the one call of batch_add_setlists of a run (main.py:196), on setlists of
\* distinct identifiers the index does not hold yet; the outcome of a call
\* that is not made is "ok"
AddBatch ==
    /\ emb = NoBatch
    /\ answer = NoAnswer
    /\ run = NoRun
    /\ \E n \in 0..MaxBatch : \E ids \in [1..n -> EmbedIds] :
        /\ \A i, j \in 1..n : ids[i] = ids[j] => i = j
        /\ \A i \in 1..n : str(ids[i]) \notin IndexedIds(index)
        /\ \E chunk_outcome \in [1..ChunkCount(n) -> Outcomes] :
           \E record_outcome \in [1..n -> Outcomes] :
              /\ \A i \in 1..n :
                    chunk_outcome[ChunkOf(i)] = "ok" => record_outcome[i] = "ok"
              /\ LET setlists == [i \in 1..n |-> EmbedRecord(ids[i])]
                     out == batch_add_setlists(index, setlists,
                                               chunk_outcome, record_outcome)
                 IN /\ index' = out.index
                    /\ emb' = [k |-> "done", setlists |-> setlists,
                               chunk_outcome |-> chunk_outcome,
                               record_outcome |-> record_outcome,
                               batch_calls |-> out.batch_calls,
                               single_calls |-> out.single_calls]
    /\ UNCHANGED <<normVars, storeVars, conn, queryVars, runVars>>

NextEmbed == AddBatch

SpecEmbed == InitEmbed /\ [][NextEmbed]_vars

\* identifiers of the setlists at positions from..to, in order
RECURSIVE IdsBetween(_, _, _)
IdsBetween(setlists, from, to) ==
    IF from > to THEN <<>>
    ELSE <<str(setlists[from].setlist_id)>> \o IdsBetween(setlists, from + 1, to)

ChunkIds(setlists, c) ==
    IdsBetween(setlists, (c - 1) * BatchSize + 1, Min(c * BatchSize, Len(setlists)))

\* identifiers of the chunks c..last whose batched call failed, in order
RECURSIVE FailedChunkIds(_, _, _)
FailedChunkIds(e, c, last) ==
    IF c > last THEN <<>>
    ELSE (IF e.chunk_outcome[c] /= "ok" THEN ChunkIds(e.setlists, c) ELSE <<>>)
         \o FailedChunkIds(e, c + 1, last)

IndexEntry(setlist) ==
    [id |-> str(setlist.setlist_id),
     embedding |-> EmbeddingOf(setlist.embedding_text),
     document |-> setlist.embedding_text]

\* C10: batch_add_setlists issues one batched call per chunk; exactly the
\* records of the chunks whose batched call failed are then added one by
\* one, in order, each chunk's records and no others; the index gains every
\* record of a chunk whose batched call succeeded and, of a failed chunk,
\* every record whose own attempt succeeded, whatever happened to the other
\* records of that chunk.
C10_ChunkFallback ==
    [][emb'.k = "done" =>
        LET e == emb'
            n == Len(e.setlists)
        IN /\ e.batch_calls = [c \in 1..ChunkCount(n) |-> ChunkIds(e.setlists, c)]
           /\ e.single_calls = FailedChunkIds(e, 1, ChunkCount(n))
           /\ index' = index \cup
                 {IndexEntry(e.setlists[i]) :
                     i \in {j \in 1..n :
                              \/ e.chunk_outcome[ChunkOf(j)] = "ok"
                              \/ e.record_outcome[j] = "ok"}}]_vars

\* the first chunk fails as a batch, its first record fails on its own and
\* its second is stored; the second chunk is stored by its batched call
C10_Witness ==
    /\ emb.k = "done"
    /\ Len(emb.setlists) = 3
    /\ emb.chunk_outcome[1] /= "ok"
    /\ emb.chunk_outcome[2] = "ok"
    /\ emb.record_outcome[1] /= "ok"
    /\ emb.record_outcome[2] = "ok"
    /\ emb.single_calls = ChunkIds(emb.setlists, 1)
    /\ IndexedIds(index) = {"s0", str(emb.setlists[2].setlist_id),
                            str(emb.setlists[3].setlist_id)}

-----------------------------------------------------------------------------
(* The query side: database.py reads, search_similar, retriever.py *)

\* the longest list of ids handed to get_setlists_by_ids
MaxIds == 3
\* the largest top_k of a query
MaxTopK == 3
\* the engine's distances are the multiples of 1/DistGrid in [0, 2].  (The
\* engine computes a cosine distance as a single-precision 1 - x, a multiple
\* of 2^-24; on such values the double-precision 1 - d/2 is exact, so the
\* arithmetic here is exact arithmetic on a grid.)
DistGrid == 2

\* the song rows of a setlist without ORDER BY, here the latest row first
RECURSIVE songs_unordered(_, _)
songs_unordered(d, rows) ==
    IF rows = {} THEN <<>>
    ELSE LET i == CHOOSE a \in rows : \A b \in rows : a >= b
         IN <<[name |-> d.songs[i].song_name,
               position |-> d.songs[i].position,
               is_encore |-> d.songs[i].is_encore /= 0]>>
            \o songs_unordered(d, rows \ {i})

\* the song rows of a setlist in ORDER BY position (row number among equals)
RECURSIVE songs_by_position(_, _)
songs_by_position(d, rows) ==
    IF rows = {} THEN <<>>
    ELSE LET i == CHOOSE a \in rows : \A b \in rows :
                     \/ d.songs[a].position < d.songs[b].position
                     \/ d.songs[a].position = d.songs[b].position /\ a <= b
         IN <<[name |-> d.songs[i].song_name,
               position |-> d.songs[i].position,
               is_encore |-> d.songs[i].is_encore /= 0]>>
            \o songs_by_position(d, rows \ {i})

\* the setlist row joined with its artist and venue rows, and its songs;
\* None when the WHERE clause matches no joined row
get_setlist_by_id(d, setlist_id) ==
    LET rows == {r \in d.setlists :
                    /\ setlist_id /= NULL /\ r.setlist_id = setlist_id
                    /\ r.artist_id \in 1..Len(d.artists)
                    /\ r.venue_id \in 1..Len(d.venues)}
    IN IF rows = {} THEN NONE
       ELSE LET s == CHOOSE r \in rows : TRUE
                a == d.artists[s.artist_id]
                v == d.venues[s.venue_id]
            IN [setlist_id |-> s.setlist_id, event_date |-> s.event_date,
                tour_name |-> s.tour_name, total_songs |-> s.total_songs,
                embedding_text |-> s.embedding_text,
                artist_name |-> a.name, artist_mbid |-> a.mbid,
                venue_name |-> v.name, city |-> v.city, country |-> v.country,
                songs |-> songs_by_position(d,
                            {i \in 1..Len(d.songs) : d.songs[i].setlist_id = setlist_id})]

RECURSIVE get_setlists_by_ids_until_miss(_, _)
get_setlists_by_ids_until_miss(d, setlist_ids) ==
    IF setlist_ids = <<>> THEN <<>>
    ELSE LET setlist == get_setlist_by_id(d, Head(setlist_ids)) IN
         IF setlist = NONE THEN <<>>
         ELSE <<setlist>> \o get_setlists_by_ids_until_miss(d, Tail(setlist_ids))

\* one get_setlist_by_id per id, in order; a None is not appended
RECURSIVE get_setlists_by_ids(_, _)
get_setlists_by_ids(d, setlist_ids) ==
    IF setlist_ids = <<>> THEN <<>>
    ELSE LET setlist == get_setlist_by_id(d, Head(setlist_ids)) IN
         (IF setlist /= NONE THEN <<setlist>> ELSE <<>>)
         \o get_setlists_by_ids(d, Tail(setlist_ids))

\* numbers with a fractional part: num / den, den > 0
Rat(n, m) == [num |-> n, den |-> m]
Half(x) == [num |-> x.num, den |-> 2 * x.den]
OneMinus(x) == [num |-> x.den - x.num, den |-> x.den]
Less(x, y) == x.num * y.den < y.num * x.den
SameNumber(x, y) == x.num * y.den = y.num * x.den

similarity_of_unhalved(distance) == OneMinus(distance)

\* similarity = 1 - (distance / 2)
similarity_of(distance) == OneMinus(Half(distance))

n_results_all(order, top_k) == order

\* n_results = top_k: the engine answers the top_k nearest, or all it has
n_results(order, top_k) == SubSeq(order, 1, Min(top_k, Len(order)))

\* collection.query: the nearest entries first; `order` lists the indexed ids
\* by ascending distance, `dist` is each id's distance to the query
query_collection(ix, dist, order, top_k) ==
    LET nearest == n_results(order, top_k)
        entry(id) == CHOOSE e \in ix : e.id = id
    IN [ids |-> <<nearest>>,
        distances |-> <<[i \in 1..Len(nearest) |-> dist[nearest[i]]]>>,
        documents |-> <<[i \in 1..Len(nearest) |-> entry(nearest[i]).document]>>]

\* search_similar: no hit when the query embedding is None, else one
\* formatted result per (id, distance, document) of zip
search_similar(ix, outcome, dist, order, top_k) ==
    LET query_embedding == generate_embedding(<<>>, outcome) IN
    IF query_embedding = NONE THEN <<>>
    ELSE LET results == query_collection(ix, dist, order, top_k)
             ids == IF results.ids /= <<>> THEN results.ids[1] ELSE <<>>
             distances == IF results.distances /= <<>> THEN results.distances[1] ELSE <<>>
             documents == IF results.documents /= <<>> THEN results.documents[1] ELSE <<>>
             n == Min(Len(ids), Min(Len(distances), Len(documents)))
         IN [i \in 1..n |->
                [setlist_id |-> ids[i], distance |-> distances[i],
                 similarity |-> similarity_of(distances[i]), text |-> documents[i]]]

\* setlist["similarity_score"] = ..., setlist["distance"] = ...
with_score(setlist, result) ==
    [setlist_id |-> setlist.setlist_id, event_date |-> setlist.event_date,
     tour_name |-> setlist.tour_name, total_songs |-> setlist.total_songs,
     embedding_text |-> setlist.embedding_text,
     artist_name |-> setlist.artist_name, artist_mbid |-> setlist.artist_mbid,
     venue_name |-> setlist.venue_name, city |-> setlist.city,
     country |-> setlist.country, songs |-> setlist.songs,
     similarity_score |-> result.similarity, distance |-> result.distance]

enrich_first(setlist, similar_results) ==
    IF similar_results = <<>> THEN setlist
    ELSE with_score(setlist, similar_results[1])

\* the inner loop of retrieve: the first result of the setlist's id
enrich(setlist, similar_results) ==
    LET same == {j \in 1..Len(similar_results) :
                    similar_results[j].setlist_id = setlist.setlist_id}
    IN IF same = {} THEN setlist
       ELSE with_score(setlist, similar_results[First(same)])

\* retrieve from the search results on
retrieve_from(d, similar_results) ==
    LET setlist_ids == [i \in 1..Len(similar_results) |-> similar_results[i].setlist_id]
        full_setlists == get_setlists_by_ids(d, setlist_ids)
    IN [i \in 1..Len(full_setlists) |-> enrich(full_setlists[i], similar_results)]

retrieve(d, ix, outcome, dist, order, top_k) ==
    retrieve_from(d, search_similar(ix, outcome, dist, order, top_k))

\* the fields of a hydrated record that are the setlist's own
OwnFieldsAsInserted(g, p) ==
    /\ g.setlist_id = p.setlist_id
    /\ g.songs = p.songs
    /\ \A i, j \in 1..Len(g.songs) : i < j => g.songs[i].position < g.songs[j].position
    /\ g.venue_name = p.venue_name
    /\ g.city = p.city
    /\ g.event_date = p.event_date
    /\ g.tour_name = p.tour_name
    /\ g.total_songs = p.total_songs
    /\ g.embedding_text = p.embedding_text

\* the first of the inserted records with the artist mbid of p
FirstWithArtistOf(p) ==
    inserted[First({n \in 1..Len(inserted) : inserted[n].artist_mbid = p.artist_mbid})]

\* C24 (as claimed): after a successful insert_setlist(s), at any later
\* point of any sequence of inserts, get_setlist_by_id(s.id) returns the
\* songs of s in ascending position order and the artist name, venue name,
\* city, country, event date, tour name, total songs and embedding text
\* that s was inserted with.
C24_HydratesAsInserted ==
    \A n \in 1..Len(inserted) :
        LET p == inserted[n]
            g == get_setlist_by_id(db, p.setlist_id)
        IN /\ g /= NONE
           /\ OwnFieldsAsInserted(g, p)
           /\ g.artist_name = p.artist_name
           /\ g.country = p.country

\* C24 (amended): get_setlist_by_id(s.id) returns the songs of s in
\* ascending position order and the venue name, city, event date, tour name,
\* total songs and embedding text that s was inserted with; the artist name
\* is that of the first setlist inserted with the artist mbid of s, and the
\* country is that of the first setlist inserted with the venue name and
\* the (non-null) city of s, the country of s itself when its city is null.
C24_HydratesStoredRows ==
    \A n \in 1..Len(inserted) :
        LET p == inserted[n]
            g == get_setlist_by_id(db, p.setlist_id)
        IN /\ g /= NONE
           /\ OwnFieldsAsInserted(g, p)
           /\ g.artist_name = FirstWithArtistOf(p).artist_name
           /\ g.country = IF p.city = NULL THEN p.country
                          ELSE FirstWithVenueOf(p).country

\* the second setlist, of two songs, was inserted under another name of the
\* first one's artist and another country of the first one's venue
C24_Witness ==
    /\ Len(inserted) = 2
    /\ inserted[2].artist_mbid = inserted[1].artist_mbid
    /\ inserted[2].artist_name /= inserted[1].artist_name
    /\ SameVenueKey(inserted[1], inserted[2])
    /\ inserted[2].country /= inserted[1].country
    /\ Len(inserted[2].songs) = 2
    /\ get_setlist_by_id(db, inserted[2].setlist_id).songs = inserted[2].songs
    /\ get_setlist_by_id(db, inserted[2].setlist_id).artist_name = inserted[1].artist_name
    /\ get_setlist_by_id(db, inserted[2].setlist_id).country = inserted[1].country

-----------------------------------------------------------------------------
(* One call on the query side, on a store and an index that earlier runs   *)
(* left.  The calls only read, so one call per behaviour shows them all.   *)

QueryRaws ==
    {MkRaw("s1", Artist1, VenueIn(TheCountry), TheDate, TheTour, SetsFor("s1")),
     MkRaw("s2", Artist2, VenueNoCity, <<29, 2, 1996>>, Missing, SetsFor("s2"))}
QueryRecords == {batch_process(<<r>>)[1] : r \in QueryRaws}

\* the ids a caller asks for: stored ones, one never stored, and None
QueryIds == {NULL, "s1", "s2", "s3"}

\* what the index may hold: the stored records, and one without a stored row
IndexEntries ==
    {IndexEntry(p) : p \in QueryRecords} \cup {IndexEntry(EmbedRecord("s3"))}

\* the store after insert_setlist of each record of ps, in order
RECURSIVE StoreAfter(_, _)
StoreAfter(d, ps) ==
    IF ps = <<>> THEN d
    ELSE StoreAfter(insert_setlist(d, Head(ps), "none").db, Tail(ps))

Distances == {Rat(n, DistGrid) : n \in 0..(2 * DistGrid)}

\* the orders in which the engine may list ids: by ascending distance, ids
\* of equal distance in any order
Orders(ids, dist) ==
    {o \in [1..Cardinality(ids) -> ids] :
        /\ \A i, j \in 1..Cardinality(ids) : o[i] = o[j] => i = j
        /\ \A i, j \in 1..Cardinality(ids) : i < j => ~Less(dist[o[j]], dist[o[i]])}

InitQuery ==
    /\ raw = MkRaw(NULL, Missing, Missing, NoDate, Missing, Missing)
    /\ processed = Pending
    /\ \E n \in 0..2 : \E ps \in [1..n -> QueryRecords] :
          /\ \A i, j \in 1..n : ps[i] = ps[j] => i = j
          /\ db = StoreAfter(EmptyDb, ps)
          /\ inserted = ps
    /\ call = NoCall
    /\ seen = NothingSeen
    /\ conn = NoConn
    /\ index \in SUBSET IndexEntries
    /\ emb = NoBatch
    /\ answer = NoAnswer
    /\ run = NoRun

GetSetlistsByIds ==
    /\ answer = NoAnswer
    /\ \E n \in 0..MaxIds : \E ids \in [1..n -> QueryIds] :
          answer' = [k |-> "get_by_ids", ids |-> ids,
                     ret |-> get_setlists_by_ids(db, ids)]
    /\ UNCHANGED <<normVars, storeVars, conn, embedVars, runVars>>

SearchSimilar ==
    /\ answer = NoAnswer
    /\ \E top_k \in 1..MaxTopK, outcome \in {"ok", "embed_failed"} :
       \E dist \in [IndexedIds(index) -> Distances] :
       \E order \in Orders(IndexedIds(index), dist) :
          answer' = [k |-> "search", top_k |-> top_k,
                     ret |-> search_similar(index, outcome, dist, order, top_k)]
    /\ UNCHANGED <<normVars, storeVars, conn, embedVars, runVars>>

Retrieve ==
    /\ answer = NoAnswer
    /\ \E top_k \in 1..MaxTopK, outcome \in {"ok", "embed_failed"} :
       \E dist \in [IndexedIds(index) -> Distances] :
       \E order \in Orders(IndexedIds(index), dist) :
          answer' = [k |-> "retrieve", top_k |-> top_k,
                     hits |-> search_similar(index, outcome, dist, order, top_k),
                     ret |-> retrieve(db, index, outcome, dist, order, top_k)]
    /\ UNCHANGED <<normVars, storeVars, conn, embedVars, runVars>>

NextQuery == GetSetlistsByIds \/ SearchSimilar \/ Retrieve

SpecQuery == InitQuery /\ [][NextQuery]_vars

\* the place of an id among the hits
HitPlace(hits, id) == First({j \in 1..Len(hits) : hits[j].setlist_id = id})

\* C11: retrieve returns at most min(top_k, number of indexed records)
\* results; they stand in the relative order of the search hits, which is
\* an order of non-increasing similarity, also when a hit has no stored row.
C11_RetrieveOrdered ==
    answer.k = "retrieve" =>
        /\ Len(answer.ret) <= Min(answer.top_k, Cardinality(index))
        /\ \A i, j \in 1..Len(answer.ret) :
              i < j =>
                /\ HitPlace(answer.hits, answer.ret[i].setlist_id) /= 0
                /\ HitPlace(answer.hits, answer.ret[i].setlist_id)
                      < HitPlace(answer.hits, answer.ret[j].setlist_id)
                /\ ~Less(answer.ret[i].similarity_score, answer.ret[j].similarity_score)

\* three hits, the middle one without a stored row, two results in hit order
C11_Witness ==
    /\ answer.k = "retrieve"
    /\ answer.top_k = 3
    /\ Len(answer.hits) = 3
    /\ answer.hits[2].setlist_id = "s3"
    /\ Len(answer.ret) = 2
    /\ answer.ret[1].setlist_id = answer.hits[1].setlist_id
    /\ answer.ret[2].setlist_id = answer.hits[3].setlist_id
    /\ Less(answer.ret[2].similarity_score, answer.ret[1].similarity_score)

\* C12: every record retrieve returns has the id of one of the hits and
\* carries the similarity and the distance of the hit of that id, whichever
\* hits have no stored row.
C12_ScoresMatchedById ==
    answer.k = "retrieve" =>
        \A i \in 1..Len(answer.ret) :
            /\ \E j \in 1..Len(answer.hits) :
                  answer.hits[j].setlist_id = answer.ret[i].setlist_id
            /\ \A j \in 1..Len(answer.hits) :
                  answer.hits[j].setlist_id = answer.ret[i].setlist_id =>
                      /\ answer.ret[i].similarity_score = answer.hits[j].similarity
                      /\ answer.ret[i].distance = answer.hits[j].distance

\* the first hit has no stored row, so the first record returned belongs to
\* the second hit, whose distance differs from the first's
C12_Witness ==
    /\ answer.k = "retrieve"
    /\ Len(answer.hits) >= 2
    /\ get_setlist_by_id(db, answer.hits[1].setlist_id) = NONE
    /\ Len(answer.ret) >= 1
    /\ answer.ret[1].setlist_id = answer.hits[2].setlist_id
    /\ answer.ret[1].distance = answer.hits[2].distance
    /\ answer.hits[1].distance /= answer.hits[2].distance

IsStoredId(id) == id \in StoredIds(db)

\* C13: get_setlists_by_ids returns, in input order, the hydrated record of
\* each input id that is stored, and nothing for an id that is not; the
\* result is never longer than the input.
C13_HydratesStoredIdsInOrder ==
    answer.k = "get_by_ids" =>
        LET stored == SelectSeq(answer.ids, IsStoredId) IN
        /\ Len(answer.ret) = Len(stored)
        /\ Len(answer.ret) <= Len(answer.ids)
        /\ \A i \in 1..Len(stored) :
              /\ answer.ret[i].setlist_id = stored[i]
              /\ answer.ret[i] = get_setlist_by_id(db, stored[i])
              /\ \E n \in 1..Len(inserted) :
                    /\ inserted[n].setlist_id = stored[i]
                    /\ answer.ret[i].songs =
                          [m \in 1..Len(inserted[n].songs) |->
                              [name |-> inserted[n].songs[m].name,
                               position |-> m,
                               is_encore |-> inserted[n].songs[m].is_encore]]

\* a stored id, an id that was never stored, another stored id
C13_Witness ==
    /\ answer.k = "get_by_ids"
    /\ Len(answer.ids) = 3
    /\ IsStoredId(answer.ids[1])
    /\ ~IsStoredId(answer.ids[2])
    /\ IsStoredId(answer.ids[3])
    /\ answer.ids[1] /= answer.ids[3]
    /\ Len(answer.ret) = 2
    /\ answer.ret[2].setlist_id = answer.ids[3]

Zero == Rat(0, 1)
One == Rat(1, 1)
Two == Rat(2, 1)

\* C14: every hit of search_similar reports the similarity 1 - d/2 of its
\* distance d: it lies in [0, 1], a larger distance gives a smaller
\* similarity, distance 0 gives 1 and distance 2 gives 0.
C14_SimilarityFromDistance ==
    answer.k = "search" =>
        /\ \A i \in 1..Len(answer.ret) :
              LET d == answer.ret[i].distance
                  sim == answer.ret[i].similarity
              IN /\ 2 * sim.num * d.den + d.num * sim.den = 2 * sim.den * d.den
                 /\ ~Less(sim, Zero) /\ ~Less(One, sim)
                 /\ SameNumber(d, Zero) => SameNumber(sim, One)
                 /\ SameNumber(d, Two) => SameNumber(sim, Zero)
        /\ \A i, j \in 1..Len(answer.ret) :
              Less(answer.ret[i].distance, answer.ret[j].distance)
                  => Less(answer.ret[j].similarity, answer.ret[i].similarity)

\* three hits at the distances 0, 1 and 2
C14_Witness ==
    /\ answer.k = "search"
    /\ Len(answer.ret) = 3
    /\ SameNumber(answer.ret[1].distance, Zero)
    /\ SameNumber(answer.ret[1].similarity, One)
    /\ SameNumber(answer.ret[2].distance, One)
    /\ SameNumber(answer.ret[2].similarity, Rat(1, 2))
    /\ SameNumber(answer.ret[3].distance, Two)
    /\ SameNumber(answer.ret[3].similarity, Zero)

-----------------------------------------------------------------------------
(* retriever.py: format_context.  The text is kept as the sequence of its  *)
(* context_parts; a part is its kind and the values its f-string prints.   *)

\* regular_songs[:15] and len(regular_songs) > 15
SongCap == 15
\* the most regular songs of a result
MaxRegular == 20
\* the most results handed to format_context
MaxResults == 2

\* f"{x:.2f}": the nearest hundredth, a tie going to the even one
Hundredths(x) ==
    LET whole == (100 * x.num) \div x.den
        rest == (100 * x.num) % x.den
    IN IF 2 * rest > x.den \/ (2 * rest = x.den /\ whole % 2 = 1)
       THEN whole + 1 ELSE whole

setlist_line_from_cap(regular_songs) ==
    [part |-> "setlist",
     items |-> SubSeq(regular_songs, 1, Min(SongCap, Len(regular_songs))),
     truncated |-> Len(regular_songs) >= SongCap,
     total |-> IF Len(regular_songs) >= SongCap THEN Len(regular_songs) ELSE 0]

\* "   Setlist: " + ', '.join(regular_songs[:15]), and the suffix
\* "... (n total songs)" when len(regular_songs) > 15
setlist_line(regular_songs) ==
    [part |-> "setlist",
     items |-> SubSeq(regular_songs, 1, Min(SongCap, Len(regular_songs))),
     truncated |-> Len(regular_songs) > SongCap,
     total |-> IF Len(regular_songs) > SongCap THEN Len(regular_songs) ELSE 0]

\* 'similarity_score' in setlist
HasScore(setlist) == "similarity_score" \in DOMAIN setlist

\* the parts of the block of one result, numbered i
format_block(i, setlist) ==
    LET regular_songs == names_where(setlist.songs, 1, FALSE)
        encore_songs == names_where(setlist.songs, 1, TRUE)
    IN <<[part |-> "title", i |-> i, artist_name |-> setlist.artist_name,
          event_date |-> setlist.event_date]>>
       \o <<[part |-> "venue",
             items |-> <<setlist.venue_name>>
                       \o (IF Truthy(setlist.city) THEN <<setlist.city>> ELSE <<>>)
                       \o (IF Truthy(setlist.country) THEN <<setlist.country>> ELSE <<>>)]>>
       \o (IF Truthy(setlist.tour_name)
           THEN <<[part |-> "tour", name |-> setlist.tour_name]>> ELSE <<>>)
       \o (IF regular_songs /= <<>> THEN <<setlist_line(regular_songs)>> ELSE <<>>)
       \o (IF encore_songs /= <<>>
           THEN <<[part |-> "encores", items |-> encore_songs]>> ELSE <<>>)
       \o <<[part |-> "total", n |-> setlist.total_songs]>>
       \o (IF HasScore(setlist)
           THEN <<[part |-> "relevance", hundredths |-> Hundredths(setlist.similarity_score)]>>
           ELSE <<>>)

RECURSIVE format_blocks_from_zero(_, _)
format_blocks_from_zero(results, i) ==
    IF i > Len(results) THEN <<>>
    ELSE format_block(i - 1, results[i]) \o format_blocks_from_zero(results, i + 1)

\* for i, setlist in enumerate(results, 1)
RECURSIVE format_blocks(_, _)
format_blocks(results, i) ==
    IF i > Len(results) THEN <<>>
    ELSE format_block(i, results[i]) \o format_blocks(results, i + 1)

\* "No relevant setlists found."
NoResultsText == <<[part |-> "no_results"]>>
\* "Retrieved concert setlists:\n"
HeaderPart == [part |-> "header"]

format_context(results) ==
    IF results = <<>> THEN NoResultsText
    ELSE <<HeaderPart>> \o format_blocks(results, 1)

-----------------------------------------------------------------------------
(* format_context applied to a sequence of retrieved records *)

Alphabet ==
    <<"A", "B", "C", "D", "E", "F", "G", "H", "I", "J", "K", "L", "M",
      "N", "O", "P", "Q", "R", "S", "T", "U", "V", "W", "X", "Y", "Z">>

\* numbers of regular songs: the small ones, those around the cap, the most
RegularCounts ==
    {n \in 0..MaxRegular : n <= 1 \/ n \in (SongCap - 1)..(SongCap + 1) \/ n = MaxRegular}

\* where the encore set of a raw record stands
EncorePlaces == {"none", "first", "last"}

FormatRaw(r, enc, full) ==
    LET regular == [has_encore |-> FALSE, encore |-> 0,
                    song |-> [i \in 1..r |-> [name |-> Alphabet[i]]]]
        encore == [has_encore |-> TRUE, encore |-> 1, song |-> <<[name |-> "Enc"]>>]
    IN MkRaw("s1", TheArtist,
             IF full THEN VenueIn(TheCountry) ELSE VenueNoCity,
             TheDate,
             IF full THEN TheTour ELSE Missing,
             SetsOf(IF enc = "none" THEN <<regular>>
                    ELSE IF enc = "first" THEN <<encore, regular>>
                    ELSE <<regular, encore>>))

\* the record get_setlist_by_id answers once the raw record is ingested
Hydrated(r) ==
    LET ps == batch_process(<<r>>) IN
    IF ps = <<>> THEN NONE
    ELSE get_setlist_by_id(insert_setlist(EmptyDb, ps[1], "none").db, r.id)

\* records as retrieve scores them (those of a full header) and as
\* get_setlists_by_ids answers them (the others)
FormatResults ==
    LET hit == [similarity |-> similarity_of(Rat(1, 4)), distance |-> Rat(1, 4)]
        plain == {Hydrated(FormatRaw(r, enc, FALSE)) :
                     r \in RegularCounts, enc \in EncorePlaces} \ {NONE}
        scored == {Hydrated(FormatRaw(r, enc, TRUE)) :
                      r \in RegularCounts, enc \in EncorePlaces} \ {NONE}
    IN plain \cup {with_score(h, hit) : h \in scored}

InitFormat ==
    /\ raw = MkRaw(NULL, Missing, Missing, NoDate, Missing, Missing)
    /\ processed = Pending
    /\ db = EmptyDb
    /\ call = NoCall
    /\ seen = NothingSeen
    /\ inserted = NoneInserted
    /\ conn = NoConn
    /\ index = EmptyIndex
    /\ emb = NoBatch
    /\ \E n \in 0..MaxResults : \E results \in [1..n -> FormatResults] :
          answer = [k |-> "results", results |-> results]
    /\ run = NoRun

FormatContext ==
    /\ answer.k = "results"
    /\ answer' = [k |-> "format", results |-> answer.results,
                  ret |-> format_context(answer.results)]
    /\ UNCHANGED <<normVars, storeVars, conn, embedVars, runVars>>

NextFormat == FormatContext

SpecFormat == InitFormat /\ [][NextFormat]_vars

Places(parts, kind) == {j \in 1..Len(parts) : parts[j].part = kind}

\* the parts from the i-th title part up to the next title part
BlockStart(parts, i) ==
    CHOOSE j \in Places(parts, "title") :
        Cardinality({t \in Places(parts, "title") : t <= j}) = i
Block(parts, i) ==
    SubSeq(parts, BlockStart(parts, i),
           IF i = Cardinality(Places(parts, "title")) THEN Len(parts)
           ELSE BlockStart(parts, i + 1) - 1)

IsSetlistLine(part) == part.part = "setlist"
IsRegular(song) == ~song.is_encore

\* C15: in the block of every result the setlist line lists the names of
\* the non-encore songs only, the first 15 of them at most and in order; it
\* carries the suffix, which states the number of non-encore songs, exactly
\* when that number is above 15.
C15_SetlistLineCapped ==
    (answer.k = "format" /\ answer.results /= <<>>) =>
        /\ Cardinality(Places(answer.ret, "title")) = Len(answer.results)
        /\ \A i \in 1..Len(answer.results) :
              LET regular == SelectSeq(answer.results[i].songs, IsRegular)
                  lines == SelectSeq(Block(answer.ret, i), IsSetlistLine)
              IN /\ Len(lines) = (IF regular = <<>> THEN 0 ELSE 1)
                 /\ \A l \in 1..Len(lines) :
                       /\ Len(lines[l].items) = Min(15, Len(regular))
                       /\ \A m \in 1..Len(lines[l].items) :
                             lines[l].items[m] = regular[m].name
                       /\ lines[l].truncated <=> Len(regular) > 15
                       /\ lines[l].truncated => lines[l].total = Len(regular)

\* a result of 20 regular songs and an encore: 15 shown, suffix of 20; next
\* to it a result of exactly 15 regular songs, without a suffix
C15_Witness ==
    /\ answer.k = "format"
    /\ Len(answer.results) = 2
    /\ Len(SelectSeq(answer.results[1].songs, IsRegular)) = 20
    /\ answer.results[1].total_songs = 21
    /\ \E j \in 1..Len(Block(answer.ret, 1)) :
          LET part == Block(answer.ret, 1)[j] IN
          /\ part.part = "setlist"
          /\ Len(part.items) = 15
          /\ part.truncated /\ part.total = 20
    /\ Len(SelectSeq(answer.results[2].songs, IsRegular)) = 15
    /\ \E j \in 1..Len(Block(answer.ret, 2)) :
          LET part == Block(answer.ret, 2)[j] IN
          /\ part.part = "setlist"
          /\ Len(part.items) = 15
          /\ ~part.truncated

\* C16: format_context of no results is the no-results sentence alone; of n
\* results it is the header line followed by n blocks, the i-th numbered i
\* and made of the i-th result.
C16_SentinelOrNumberedBlocks ==
    answer.k = "format" =>
        IF answer.results = <<>> THEN answer.ret = NoResultsText
        ELSE /\ answer.ret[1] = HeaderPart
             /\ Places(answer.ret, "header") = {1}
             /\ Places(answer.ret, "no_results") = {}
             /\ BlockStart(answer.ret, 1) = 2
             /\ Cardinality(Places(answer.ret, "title")) = Len(answer.results)
             /\ \A i \in 1..Len(answer.results) :
                   /\ Block(answer.ret, i)[1].i = i
                   /\ Block(answer.ret, i) = format_block(i, answer.results[i])
                   /\ Cardinality(Places(Block(answer.ret, i), "total")) = 1

C16_Witness ==
    /\ answer.k = "format"
    /\ Len(answer.results) = 2
    /\ answer.results[1] /= answer.results[2]
    /\ answer.ret[1] = HeaderPart
    /\ Block(answer.ret, 1)[1].i = 1
    /\ Block(answer.ret, 2)[1].i = 2
    /\ HasScore(answer.results[1]) /\ ~HasScore(answer.results[2])

-----------------------------------------------------------------------------
(* main.py: the ingestion run of setup.  What the upstream answers to      *)
(* get_artist_setlists is an input of the run: any short list of raw       *)
(* records.                                                                *)

\* the most raw records the upstream answers for one artist
MaxFetched == 2

\* search_artist: the first artist of a non-empty answer; None for an empty
\* answer and for a failed request
search_artist(data) ==
    IF data.k = "found" /\ Len(data.artist) > 0 THEN data.artist[1] ELSE NONE

\* the insert loop without "if setlist_id:"
SucceededOrNot(ret) == TRUE

\* if setlist_id:
Succeeded(ret) == ret /= RetNone /\ Truthy(ret.id)

\* the loop "for setlist in processed" from its i-th record on; acc carries
\* the store, every call with its return, and all_processed
RECURSIVE insert_all(_, _, _)
insert_all(processed_list, i, acc) ==
    IF i > Len(processed_list) THEN acc
    ELSE LET setlist == processed_list[i]
             res == insert_setlist(acc.db, setlist, "none")
         IN insert_all(processed_list, i + 1,
                [db |-> res.db,
                 attempts |-> Append(acc.attempts, [p |-> setlist, ret |-> res.ret]),
                 all_processed |-> IF Succeeded(res.ret)
                                   THEN Append(acc.all_processed, setlist)
                                   ELSE acc.all_processed])

\* the body of "for artist_name in artists" once the collector has answered
\* raw_setlists for the artist
store_artist(acc, raw_setlists) ==
    LET seen_raws == [acc EXCEPT !.raws = @ \o raw_setlists] IN
    IF raw_setlists = <<>> THEN seen_raws
    ELSE LET processed_list == batch_process(raw_setlists) IN
         IF processed_list = <<>> THEN seen_raws
         ELSE LET done == insert_all(processed_list, 1,
                              [db |-> acc.db, attempts |-> acc.attempts,
                               all_processed |-> acc.all_processed])
              IN [seen_raws EXCEPT !.db = done.db, !.attempts = done.attempts,
                                   !.all_processed = done.all_processed]

\* the artists of a run and what the upstream knows of them
RunArtists == {<<"Phish">>, <<"Phish", "Dead">>}
ArtistNamed(name) ==
    IF name = "Phish" THEN [k |-> "obj", name |-> "Phish", mbid |-> "m1"]
    ELSE [k |-> "obj", name |-> "Dead", mbid |-> "m2"]

\* kinds of raw record: two that ingest cleanly, one without a named song,
\* one without a date (its insert fails on NOT NULL)
RunKinds == {"s1", "s2", "unnamed", "undated"}
RunRaw(kind, artist) ==
    IF kind = "s1"
    THEN MkRaw("s1", artist, VenueIn(TheCountry), TheDate, TheTour, SetsFor("s1"))
    ELSE IF kind = "s2"
    THEN MkRaw("s2", artist, VenueNoCity, TheDate, Missing, SetsFor("s2"))
    ELSE IF kind = "unnamed"
    THEN MkRaw("s3", artist, VenueIn(TheCountry), TheDate, TheTour,
               SetsOf(<<[has_encore |-> FALSE, encore |-> 0,
                         song |-> <<[name |-> NULL]>>]>>))
    ELSE MkRaw("s4", artist, VenueIn(TheCountry), NoDate, TheTour, SetsFor("s1"))

\* what an earlier run left: nothing, or setlist s1 stored and indexed
EarlierRecord == batch_process(<<RunRaw("s1", ArtistNamed("Phish"))>>)[1]
EarlierRuns ==
    {[db |-> EmptyDb, index |-> EmptyIndex],
     [db |-> StoreAfter(EmptyDb, <<EarlierRecord>>),
      index |-> {IndexEntry(EarlierRecord)}]}

\* a provider call of the run succeeds or its embedding call raises
RunOutcomes == {"ok", "embed_failed"}

InitRun ==
    /\ raw = MkRaw(NULL, Missing, Missing, NoDate, Missing, Missing)
    /\ processed = Pending
    /\ \E e \in EarlierRuns : db = e.db /\ index = e.index
    /\ call = NoCall
    /\ seen = NothingSeen
    /\ inserted = NoneInserted
    /\ conn = NoConn
    /\ emb = NoBatch
    /\ answer = NoAnswer
    /\ \E artists \in RunArtists :
          run = [pc |-> "artists", todo |-> artists, raws |-> <<>>,
                 attempts |-> <<>>, all_processed |-> <<>>,
                 start_ids |-> StoredIds(db)]

\* one turn of "for artist_name in artists": search_artist,
\* get_artist_setlists, batch_process and the insert loop
CollectArtist ==
    /\ run.pc = "artists"
    /\ run.todo /= <<>>
    /\ \E found \in BOOLEAN : \E n \in 0..MaxFetched : \E kinds \in [1..n -> RunKinds] :
          /\ ~found => n = 0
          /\ LET artist == search_artist(
                              IF found
                              THEN [k |-> "found", artist |-> <<ArtistNamed(Head(run.todo))>>]
                              ELSE [k |-> "found", artist |-> <<>>])
                 raw_setlists == IF artist = NONE THEN <<>>
                                 ELSE [i \in 1..n |-> RunRaw(kinds[i], artist)]
                 acc == store_artist([db |-> db, raws |-> run.raws,
                                      attempts |-> run.attempts,
                                      all_processed |-> run.all_processed],
                                     raw_setlists)
             IN /\ db' = acc.db
                /\ run' = [run EXCEPT !.todo = Tail(@), !.raws = acc.raws,
                                      !.attempts = acc.attempts,
                                      !.all_processed = acc.all_processed]
    /\ UNCHANGED <<normVars, call, seen, inserted, conn, embedVars, queryVars>>

\* after the loop: batch_add_setlists(all_processed) if there is any, the
\* statistics, disconnect
GenerateEmbeddings ==
    /\ run.pc = "artists"
    /\ run.todo = <<>>
    /\ IF run.all_processed = <<>>
       THEN UNCHANGED embedVars
       ELSE LET n == Len(run.all_processed) IN
            \E chunk_outcome \in [1..ChunkCount(n) -> RunOutcomes] :
            \E record_outcome \in [1..n -> RunOutcomes] :
               /\ \A i \in 1..n :
                     chunk_outcome[ChunkOf(i)] = "ok" => record_outcome[i] = "ok"
               /\ LET res == batch_add_setlists(index, run.all_processed,
                                                chunk_outcome, record_outcome)
                  IN /\ index' = res.index
                     /\ emb' = [k |-> "done", setlists |-> run.all_processed,
                                chunk_outcome |-> chunk_outcome,
                                record_outcome |-> record_outcome,
                                batch_calls |-> res.batch_calls,
                                single_calls |-> res.single_calls]
    /\ run' = [run EXCEPT !.pc = "done"]
    /\ UNCHANGED <<normVars, storeVars, conn, queryVars>>

NextRun == CollectArtist \/ GenerateEmbeddings

SpecRun == InitRun /\ [][NextRun]_vars

\* the run with its steps taken whenever one is possible
SpecRunLive == SpecRun /\ WF_vars(NextRun)

Normalizes(r) == process_setlist(r) /= NONE
AttemptSucceeded(a) == Succeeded(a.ret)

RECURSIVE Concat(_)
Concat(seqs) == IF seqs = <<>> THEN <<>> ELSE Head(seqs) \o Concat(Tail(seqs))

\* every raw record of the run so far that normalizes has been handed to
\* insert_setlist, in order; an insert succeeds unless the record lacks its
\* date or its id is stored already; all_processed holds the records whose
\* insert succeeded; at the end of the run they have all been submitted for
\* embedding, and each is indexed unless its own embedding failed
RunRecordsIndependent ==
    LET kept == SelectSeq(run.raws, Normalizes)
        succeeded == SelectSeq(run.attempts, AttemptSucceeded)
    IN /\ Len(run.attempts) = Len(kept)
       /\ \A i \in 1..Len(kept) :
             /\ run.attempts[i].p = with_embedding_text(process_setlist(kept[i]))
             /\ Succeeded(run.attempts[i].ret) <=>
                   /\ run.attempts[i].p.event_date /= NoDate
                   /\ run.attempts[i].p.setlist_id \notin run.start_ids
                   /\ \A j \in 1..(i - 1) :
                         Succeeded(run.attempts[j].ret) =>
                            run.attempts[j].p.setlist_id /= run.attempts[i].p.setlist_id
             /\ Succeeded(run.attempts[i].ret) =>
                   run.attempts[i].p.setlist_id \in StoredIds(db)
       /\ run.all_processed = [i \in 1..Len(succeeded) |-> succeeded[i].p]
       /\ (run.pc = "done" /\ run.all_processed /= <<>>) =>
             /\ emb.k = "done"
             /\ emb.setlists = run.all_processed
             /\ Concat(emb.batch_calls) =
                   [i \in 1..Len(run.all_processed) |-> str(run.all_processed[i].setlist_id)]
             /\ \A i \in 1..Len(run.all_processed) :
                   /\ emb.chunk_outcome[ChunkOf(i)] /= "ok" =>
                         \E m \in 1..Len(emb.single_calls) :
                            emb.single_calls[m] = str(run.all_processed[i].setlist_id)
                   /\ (emb.chunk_outcome[ChunkOf(i)] = "ok" \/ emb.record_outcome[i] = "ok")
                         => IndexEntry(run.all_processed[i]) \in index

\* C17: in an ingestion run a raw record that does not normalize, a
\* duplicate setlist id, another insert failure or an embedding failure of
\* one item stops nothing: every other record is normalized, inserted and
\* submitted for embedding, and the run reaches its end.
C17_RunNeverAborted ==
    /\ []RunRecordsIndependent
    /\ <>(run.pc = "done")

IsUnnamed(r) == ~Normalizes(r)

\* a finished run that met a record without named songs, then a failed
\* insert, then a successful one, and whose batched embedding call failed,
\* the first record failing again on its own and the second being indexed
C17_Witness ==
    /\ run.pc = "done"
    /\ SelectSeq(run.raws, IsUnnamed) /= <<>>
    /\ ~Normalizes(run.raws[1])
    /\ Len(run.attempts) >= 3
    /\ ~Succeeded(run.attempts[2].ret)
    /\ Succeeded(run.attempts[3].ret)
    /\ Len(run.all_processed) = 2
    /\ emb.k = "done"
    /\ emb.chunk_outcome[1] /= "ok"
    /\ emb.record_outcome[1] /= "ok"
    /\ emb.record_outcome[2] = "ok"
    /\ IndexEntry(run.all_processed[2]) \in index
    /\ IndexEntry(run.all_processed[1]) \notin index

\* the ids of the raw records of the run that do not normalize
AbsentIds == {run.raws[i].id : i \in {j \in 1..Len(run.raws) : ~Normalizes(run.raws[j])}}

\* C18: during and after an ingestion run every stored setlist has at least
\* one song row and a positive total_songs, and every indexed id is that of
\* a stored setlist with songs; no record handed to insert_setlist or to
\* batch_add_setlists is None or has an empty song sequence, so a raw
\* record that normalizes to None reaches neither.
C18_NoEmptySetlistKept ==
    /\ \A r \in db.setlists :
          r.total_songs >= 1 /\ SongRowsOf(db, r.setlist_id) /= {}
    /\ \A e \in index :
          \E r \in db.setlists :
              str(r.setlist_id) = e.id /\ SongRowsOf(db, r.setlist_id) /= {}
    /\ \A i \in 1..Len(run.attempts) :
          /\ run.attempts[i].p /= NONE
          /\ run.attempts[i].p.songs /= <<>>
          /\ run.attempts[i].p.setlist_id \notin AbsentIds
    /\ emb.k = "done" =>
          \A i \in 1..Len(emb.setlists) :
              /\ emb.setlists[i] /= NONE
              /\ emb.setlists[i].songs /= <<>>
              /\ emb.setlists[i].setlist_id \notin AbsentIds
    /\ StoredIds(db) \cap AbsentIds = {}
    /\ IndexedIds(index) \cap AbsentIds = {}

\* a finished run over raw records of which the second has no named song,
\* with the other two stored and indexed
C18_Witness ==
    /\ run.pc = "done"
    /\ Len(run.raws) >= 3
    /\ Normalizes(run.raws[1])
    /\ ~Normalizes(run.raws[2])
    /\ Normalizes(run.raws[3])
    /\ Cardinality(db.setlists) = 2
    /\ Cardinality(index) = 2
    /\ run.start_ids = {}

-----------------------------------------------------------------------------
(* main.py: one setup run after another on the same store and the same     *)
(* collection, the first on an empty store and an empty collection.        *)

\* the artists of each of the runs
RerunArtists == {<<"Phish">>}

InitRuns ==
    /\ raw = MkRaw(NULL, Missing, Missing, NoDate, Missing, Missing)
    /\ processed = Pending
    /\ db = EmptyDb
    /\ index = EmptyIndex
    /\ call = NoCall
    /\ seen = NothingSeen
    /\ inserted = NoneInserted
    /\ conn = NoConn
    /\ emb = NoBatch
    /\ answer = NoAnswer
    /\ \E artists \in RerunArtists :
          run = [pc |-> "artists", todo |-> artists, raws |-> <<>>,
                 attempts |-> <<>>, all_processed |-> <<>>,
                 start_ids |-> {}, later |-> FALSE]

\* setup is called again after a finished run: new components on the store
\* and the collection as the earlier run left them, all_processed = []
SetupAgain ==
    /\ run.pc = "done"
    /\ ~run.later
    /\ \E artists \in RerunArtists :
          run' = [pc |-> "artists", todo |-> artists, raws |-> <<>>,
                  attempts |-> <<>>, all_processed |-> <<>>,
                  start_ids |-> StoredIds(db), later |-> TRUE]
    /\ emb' = NoBatch
    /\ UNCHANGED <<normVars, storeVars, conn, index, queryVars>>

NextRuns == CollectArtist \/ GenerateEmbeddings \/ SetupAgain

SpecRuns == InitRuns /\ [][NextRuns]_vars

\* the ids of the setlists whose insert_setlist succeeded in the run
SucceededIds ==
    {str(run.attempts[i].p.setlist_id) :
        i \in {j \in 1..Len(run.attempts) : Succeeded(run.attempts[j].ret)}}

\* the ids the run has submitted for embedding, batched or one by one
SubmittedIds ==
    IF emb.k /= "done" THEN {}
    ELSE UNION {{emb.batch_calls[c][i] : i \in 1..Len(emb.batch_calls[c])} :
                   c \in 1..Len(emb.batch_calls)}
         \cup {emb.single_calls[m] : m \in 1..Len(emb.single_calls)}

\* C26: after any sequence of setup runs every id of the collection is the
\* id of a stored setlist row, and a run submits for embedding only
\* setlists whose insert_setlist succeeded in that run.
C26_IndexedIdsAreStored ==
    /\ \A e \in index : \E r \in db.setlists : str(r.setlist_id) = e.id
    /\ SubmittedIds \subseteq SucceededIds

\* a second run, finished: the insert of s1, stored by the first run, failed
\* and s1 was not submitted again; s2 was inserted, submitted and indexed
C26_Witness ==
    /\ run.pc = "done" /\ run.later
    /\ "s1" \in run.start_ids
    /\ \E i \in 1..Len(run.attempts) :
          run.attempts[i].p.setlist_id = "s1" /\ ~Succeeded(run.attempts[i].ret)
    /\ SubmittedIds = {"s2"}
    /\ IndexedIds(index) = {"s1", "s2"}
    /\ StoredIds(db) = {"s1", "s2"}

\* every embedding call of the run succeeded (a run without a setlist to
\* embed makes no call)
EveryEmbeddingSucceeded ==
    emb.k = "done" =>
        \A c \in 1..Len(emb.chunk_outcome) : emb.chunk_outcome[c] = "ok"

\* C27 (as claimed): after a setup run in which every embedding call
\* succeeds, every stored setlist row has a record in the collection,
\* whatever earlier runs did, one that stored a setlist and failed to embed
\* it included.
C27_StoredIdsAreIndexed ==
    (run.pc = "done" /\ EveryEmbeddingSucceeded) =>
        \A r \in db.setlists : str(r.setlist_id) \in IndexedIds(index)

\* a second run that made an embedding call, which succeeded, and that met
\* again the setlist the first run had stored and failed to embed
StoredAndLeftUnindexed ==
    /\ run.pc = "done" /\ run.later
    /\ emb.k = "done" /\ EveryEmbeddingSucceeded
    /\ \E i \in 1..Len(run.attempts) :
          /\ run.attempts[i].p.setlist_id \in run.start_ids
          /\ ~Succeeded(run.attempts[i].ret)
          /\ str(run.attempts[i].p.setlist_id) \notin IndexedIds(index)

\* What holds: after a run in which every embedding call succeeds, every
\* setlist the run itself inserted has a record in the collection.
InsertedInRunAreIndexed ==
    (run.pc = "done" /\ EveryEmbeddingSucceeded) =>
        /\ SucceededIds \subseteq IndexedIds(index)
        /\ \A r \in db.setlists :
              r.setlist_id \notin run.start_ids => str(r.setlist_id) \in IndexedIds(index)

-----------------------------------------------------------------------------
(* data_collector.py: the upstream requests of an ingestion run.  The log  *)
(* is the sequence of requests sent and delays slept; a raw record is the  *)
(* place it has in the upstream's list for its artist.                     *)

\* RATE_LIMIT_DELAY, in seconds
RATE_LIMIT_DELAY == 1
\* items_per_page (20 in the code, the page size of the upstream)
ItemsPerPage == 2
\* the largest max_per_artist of a run
MaxPerArtist == 4
\* the most setlists the upstream holds of one artist
MaxCatalog == 4

\* the setlists of page `page` of an artist of which the upstream holds `held`
page_of(held, page) ==
    [i \in 1..(Min(page * ItemsPerPage, held) - Min((page - 1) * ItemsPerPage, held)) |->
        (page - 1) * ItemsPerPage + i]

\* math.ceil(max_setlists / items_per_page)
page_count(max_setlists) == (max_setlists + ItemsPerPage - 1) \div ItemsPerPage

\* the loop of get_artist_setlists from its turn i (counted from 0) on;
\* the request of page fail_at raises a RequestException
RECURSIVE fetch_pages(_, _, _, _, _, _, _)
fetch_pages(artist_mbid, held, max_setlists, fail_at, i, st, page) ==
    IF i >= page_count(max_setlists) THEN st
    ELSE LET requested == [st EXCEPT !.log = Append(@,
                              [ev |-> "fetch", artist |-> artist_mbid, page |-> page])]
         IN IF page = fail_at
            THEN [requested EXCEPT !.all_setlists = <<>>]
            ELSE LET setlists == page_of(held, page) IN
                 IF setlists = <<>> THEN requested
                 ELSE LET extended == requested.all_setlists \o setlists IN
                      IF Len(extended) > max_setlists
                      THEN [requested EXCEPT !.all_setlists =
                                                SubSeq(extended, 1, max_setlists)]
                      ELSE fetch_pages(artist_mbid, held, max_setlists, fail_at, i + 1,
                               [all_setlists |-> extended,
                                log |-> Append(requested.log,
                                           [ev |-> "sleep", delay |-> RATE_LIMIT_DELAY])],
                               page + 1)

get_artist_setlists(artist_mbid, held, max_setlists, fail_at, log) ==
    fetch_pages(artist_mbid, held, max_setlists, fail_at, 0,
                [all_setlists |-> <<>>, log |-> log], 1)

InitCollect ==
    /\ raw = MkRaw(NULL, Missing, Missing, NoDate, Missing, Missing)
    /\ processed = Pending
    /\ db = EmptyDb
    /\ call = NoCall
    /\ seen = NothingSeen
    /\ inserted = NoneInserted
    /\ conn = NoConn
    /\ index = EmptyIndex
    /\ emb = NoBatch
    /\ answer = NoAnswer
    /\ \E artists \in RunArtists, max_per_artist \in 1..MaxPerArtist :
          run = [pc |-> "collect", todo |-> artists,
                 max_per_artist |-> max_per_artist, log |-> <<>>,
                 raw_setlists |-> <<>>]

\* the upstream part of one turn of "for artist_name in artists":
\* search_artist, then get_artist_setlists if an artist was found; both an
\* empty and a failed search return None, and log the same
CollectSetlists ==
    /\ run.pc = "collect"
    /\ run.todo /= <<>>
    /\ \E search \in {"found", "empty", "failed"}, held \in 0..MaxCatalog :
       \E fail_at \in 0..(page_count(run.max_per_artist)) :
          /\ search /= "found" => (held = 0 /\ fail_at = 0)
          /\ LET artist == search_artist(
                              IF search = "found"
                              THEN [k |-> "found", artist |-> <<ArtistNamed(Head(run.todo))>>]
                              ELSE IF search = "empty"
                                   THEN [k |-> "found", artist |-> <<>>]
                                   ELSE [k |-> "failed"])
                 searched == Append(run.log, [ev |-> "search", name |-> Head(run.todo)])
                 got == IF artist = NONE
                        THEN [all_setlists |-> <<>>, log |-> searched]
                        ELSE get_artist_setlists(artist.mbid, held, run.max_per_artist,
                                                 fail_at, searched)
             IN run' = [run EXCEPT !.todo = Tail(@), !.log = got.log,
                                   !.raw_setlists = got.all_setlists]
    /\ UNCHANGED <<normVars, storeVars, conn, embedVars, queryVars>>

NextCollect == CollectSetlists

SpecCollect == InitCollect /\ [][NextCollect]_vars

Fetches == {i \in 1..Len(run.log) : run.log[i].ev = "fetch"}
ConsecutiveFetches ==
    {pair \in Fetches \X Fetches :
        /\ pair[1] < pair[2]
        /\ \A m \in Fetches : ~(pair[1] < m /\ m < pair[2])}
DelayBetween(i, j) ==
    \E m \in (i + 1)..(j - 1) :
        run.log[m].ev = "sleep" /\ run.log[m].delay = RATE_LIMIT_DELAY

\* C20 (as claimed): between any two consecutive setlist page requests of a
\* run, of one artist or of one artist and the next, the rate-limit delay is
\* slept, always the same delay, and no page is requested twice.
C20_DelayBetweenFetches ==
    /\ \A pair \in ConsecutiveFetches : DelayBetween(pair[1], pair[2])
    /\ \A i \in 1..Len(run.log) :
          run.log[i].ev = "sleep" => run.log[i].delay = RATE_LIMIT_DELAY
    /\ \A i, j \in Fetches :
          (run.log[i].artist = run.log[j].artist /\ run.log[i].page = run.log[j].page)
              => i = j

\* What holds: the delay between the page requests of one artist, the one
\* delay, and no page requested twice.
DelayBetweenPagesOfOneArtist ==
    /\ \A pair \in ConsecutiveFetches :
          run.log[pair[1]].artist = run.log[pair[2]].artist
              => DelayBetween(pair[1], pair[2])
    /\ \A i \in 1..Len(run.log) :
          run.log[i].ev = "sleep" => run.log[i].delay = RATE_LIMIT_DELAY
    /\ \A i, j \in Fetches :
          (run.log[i].artist = run.log[j].artist /\ run.log[i].page = run.log[j].page)
              => i = j

-----------------------------------------------------------------------------
(* embeddings.py: the single-item operations, called one after another on  *)
(* one collection.  emb holds the last generate_embedding or add_setlist   *)
(* call, answer the search_similar call that ends the behaviour.           *)

SingleIds == {"s1", "s2"}

InitSingle ==
    /\ raw = MkRaw(NULL, Missing, Missing, NoDate, Missing, Missing)
    /\ processed = Pending
    /\ db = EmptyDb
    /\ call = NoCall
    /\ seen = NothingSeen
    /\ inserted = NoneInserted
    /\ conn = NoConn
    /\ index = EmptyIndex
    /\ emb = NoBatch
    /\ answer = NoAnswer
    /\ run = NoRun

\* generate_embedding(text): returns, whatever the provider call did
GenerateEmbedding ==
    /\ answer = NoAnswer
    /\ \E id \in SingleIds, outcome \in {"ok", "embed_failed"} :
          emb' = [k |-> "embed", id |-> id, outcome |-> outcome,
                  ret |-> generate_embedding(EmbedText(id), outcome),
                  raised |-> FALSE, before |-> index]
    /\ UNCHANGED <<normVars, storeVars, conn, index, queryVars, runVars>>

\* add_setlist(setlist_id, embedding_text) of an id the collection lacks
AddSetlist ==
    /\ answer = NoAnswer
    /\ \E id \in SingleIds, outcome \in Outcomes :
          /\ id \notin IndexedIds(index)
          /\ LET res == add_setlist(index, id, EmbedText(id), outcome) IN
             /\ index' = res.index
             /\ emb' = [k |-> "add", id |-> id, outcome |-> outcome,
                        ret |-> NONE, raised |-> res.raised, before |-> index]
    /\ UNCHANGED <<normVars, storeVars, conn, queryVars, runVars>>

\* search_similar(query, top_k)
SearchSingle ==
    /\ answer = NoAnswer
    /\ \E top_k \in 1..MaxTopK, outcome \in {"ok", "embed_failed"} :
       \E dist \in [IndexedIds(index) -> Distances] :
       \E order \in Orders(IndexedIds(index), dist) :
          answer' = [k |-> "search", top_k |-> top_k, outcome |-> outcome,
                     raised |-> FALSE,
                     ret |-> search_similar(index, outcome, dist, order, top_k)]
    /\ UNCHANGED <<normVars, storeVars, conn, embedVars, runVars>>

NextSingle == GenerateEmbedding \/ AddSetlist \/ SearchSingle

SpecSingle == InitSingle /\ [][NextSingle]_vars

\* C22: when the embedding provider fails, no exception leaves a
\* single-item operation: generate_embedding returns None, add_setlist
\* stores nothing and leaves the collection as it was, and search_similar
\* returns an empty list.
C22_ProviderFailureContained ==
    /\ (emb.k = "embed" /\ emb.outcome = "embed_failed") =>
          emb.ret = NONE /\ ~emb.raised
    /\ (emb.k = "add" /\ emb.outcome = "embed_failed") =>
          ~emb.raised /\ index = emb.before
    /\ (answer.k = "search" /\ answer.outcome = "embed_failed") =>
          answer.ret = <<>> /\ ~answer.raised

\* a failed add_setlist on a collection that holds a record, then a failed
\* search on it
C22_Witness ==
    /\ emb.k = "add" /\ emb.outcome = "embed_failed"
    /\ index /= EmptyIndex
    /\ index = emb.before
    /\ answer.k = "search" /\ answer.outcome = "embed_failed"
    /\ answer.ret = <<>>

\* a failed generate_embedding
C22_EmbedWitness ==
    emb.k = "embed" /\ emb.outcome = "embed_failed" /\ emb.ret = NONE

=============================================================================
